---- MODULE Spec2Model ----
(***************************************************************************)
(* Work assignment engine of assign_manager.                               *)
(*                                                                         *)
(*   quota planner   optimal_strategy_analysis.advanced_optimal_strategy   *)
(*   strategy cache  strategy_manager.StrategyManager                      *)
(*   worker mapper   update_assignment_results.assign_workers_to_tasks     *)
(*                                                                         *)
(* A run is one call of assign_workers_to_tasks(work_data, employee_data): *)
(* the three planner loops, the mapper loop and the strategy summary, one  *)
(* loop iteration per step.  A second run on the same work data, with the  *)
(* same roster or with one more worker, follows a run that returned, so    *)
(* that two runs can be compared.                                          *)
(***************************************************************************)
EXTENDS Integers, Sequences, FiniteSets, TLC

(***************************************************************************)
(* config_params.py                                                        *)
(***************************************************************************)
WORK_HOURS_PER_DAY == 480

SENIOR_TIME == << 5, 10, 20, 30, 40, 50, 60 >>

\* JUNIOR_TIME = {k: int(v * 1.5)}: the product is truncated to an integer.
JUNIOR_TIME == [k \in DOMAIN SENIOR_TIME |-> (SENIOR_TIME[k] * 3) \div 2]

HIGH_DIFFICULTY_LEVELS == {6, 7}

UNASSIGNED == "UNASSIGNED"

(***************************************************************************)
(* Bounds of the input space.                                              *)
(***************************************************************************)
MaxItems == 3
MaxSenior == 2
MaxJunior == 2
MaxTarget == 2

\* (priority, difficulty) of the work items of the enumerated work lists.
Kinds ==
  { <<1, 1>>, <<1, 7>>, <<2, 1>>, <<2, 7>>, <<3, 1>> }

\* Daily budgets given to the planner when it is called on its own.
BudgetSample == {7, 60, WORK_HOURS_PER_DAY}

\* A junior_time table passed to StrategyManager in place of the configured
\* one: as long as the senior time for difficulty 1 (a tie), shorter than the
\* senior time for difficulty 7, and not increasing with the difficulty.
FAST_JUNIOR_TIME == << 5, 15, 30, 45, 60, 75, 2 >>

\* <<senior_time, junior_time>> of the configuration
ConfiguredTimes == << SENIOR_TIME, JUNIOR_TIME >>

\* The tables the planner is called with on its own.
TimeTables == { ConfiguredTimes, << SENIOR_TIME, FAST_JUNIOR_TIME >> }

Item(k) == [priority |-> k[1], difficulty |-> k[2]]

\* n rows of one kind
Block(k, n) == [i \in 1..n |-> Item(k)]

WorkLists ==
  UNION { [1..n -> {Item(k) : k \in Kinds}] : n \in 1..MaxItems }

\* A roster of s senior and j junior workers, as the list of records the API
\* passes: [{"id": ..., "type": "SENIOR" | "JUNIOR"}].
SeniorIds == << "S1", "S2", "S3", "S4", "S5", "S6" >>
JuniorIds == << "J1", "J2", "J3", "J4", "J5", "J6" >>

Roster(s, j) ==
  [i \in 1..s |-> [id |-> SeniorIds[i], type |-> "SENIOR"]]
    \o [i \in 1..j |-> [id |-> JuniorIds[i], type |-> "JUNIOR"]]

GeneralInputs ==
  { [df |-> l, employee_data |-> Roster(s, j), minimum_work_target |-> t] :
      l \in WorkLists, s \in 0..MaxSenior, j \in 0..MaxJunior, t \in 0..MaxTarget }

\* Work lists long enough to use up the daily budget of every worker.
\* One senior and one junior: fourteen mandatory items of difficulty 7 (the
\* last two at the end of the file) and two simple items of priority 2.
StaffingScenario ==
  [df |-> Block(<<1, 7>>, 12) \o Block(<<2, 1>>, 2) \o Block(<<1, 7>>, 2),
   employee_data |-> Roster(1, 1), minimum_work_target |-> 0]

\* One senior and four juniors: thirty mandatory items, 20 of difficulty 6
\* and 10 of difficulty 7 (2400 junior minutes for 2400 minutes of capacity).
MandatoryScenario ==
  [df |-> Block(<<1, 6>>, 20) \o Block(<<1, 7>>, 10),
   employee_data |-> Roster(1, 4), minimum_work_target |-> 0]

\* Scenario B: no senior, two juniors, 200 items of difficulty 3 (priority 2),
\* minimum target 50.
ScenarioB ==
  [df |-> Block(<<2, 3>>, 200),
   employee_data |-> Roster(0, 2), minimum_work_target |-> 50]

\* One senior and one junior, nine items of difficulty 7 (the first of
\* priority 2, eight mandatory), then five mandatory items of difficulty 6,
\* and a minimum target of all fourteen: 790 minutes of senior work for 960
\* minutes of capacity, but room for thirteen items only.
TargetScenario ==
  [df |-> Block(<<2, 7>>, 1) \o Block(<<1, 7>>, 8) \o Block(<<1, 6>>, 5),
   employee_data |-> Roster(1, 1), minimum_work_target |-> 14]

ScenarioInputs == {StaffingScenario, MandatoryScenario, ScenarioB, TargetScenario}

\* Scenario C: an item of difficulty 5 before an item of difficulty 1, both
\* of priority 2, alone or with mandatory items of difficulty 7 before,
\* between or after them; minimum target 0.
ScenarioCLists ==
  LET hard == Item(<<2, 5>>)
      easy == Item(<<2, 1>>)
      must == Item(<<1, 7>>)
  IN { << hard, easy >>,
       << must, hard, easy >>,
       << hard, must, easy >>,
       << hard, easy, must >>,
       << hard, easy, must, must >> }

ScenarioCInputs ==
  { [df |-> l, employee_data |-> Roster(s, j), minimum_work_target |-> 0] :
      l \in ScenarioCLists, s \in 0..2, j \in 0..1 }

PlannerInputs == GeneralInputs \cup ScenarioCInputs

Inputs == GeneralInputs \cup ScenarioInputs

(***************************************************************************)
(* State                                                                   *)
(***************************************************************************)
VARIABLES
  df,                     \* work data rows, in row order
  employee_data,          \* roster records, in list order
  senior_workers,         \* StrategyManager.senior_workers (a count)
  junior_workers,         \* StrategyManager.junior_workers (a count)
  work_hours_per_day,     \* StrategyManager.work_hours_per_day
  minimum_work_target,    \* StrategyManager.minimum_work_target
  senior_time,            \* StrategyManager.senior_time (difficulty -> minutes)
  junior_time,            \* StrategyManager.junior_time
  pc,                     \* position in the run
  rows,                   \* rows (indices of df) the current planner loop walks
  pos,                    \* position of the current loop
  assignment,             \* planner: difficulty -> <<senior_count, junior_count>>
  remaining_senior_time,
  remaining_junior_time,
  completed_count,
  priority_1_completed,
  placed,                 \* history: rows each planner phase counted
  computed,               \* StrategyManager._computed
  df_sorted,              \* mapper: output records in (priority, difficulty) order
  remaining_quota,        \* mapper: difficulty -> [senior, junior]
  senior_workload,        \* mapper: worker id -> minutes
  junior_workload,
  assigned_count,
  fit_seen,               \* history: rows some worker could fit when processed
  load_seen,              \* history: the workload tables each row was processed with
  strategy_summary,       \* result of get_strategy_summary, or <<>>
  run,                    \* 1 for the first run, 2 for the second
  prev,                   \* what the first run returned, or <<>>
  request,                \* the JSON body of a POST /api/assign, or <<>>
  response,               \* the answer to it, or <<>>
  result_csv,             \* the rows of the local work data file result.csv
  employee_list_csv,      \* the records of the local roster file
  strategy_manager,       \* the module global _strategy_manager
  returned,               \* what the last call of an entry point returned
  runs                    \* the locals of concurrent assign_workers_to_tasks calls

inputVars == << df, employee_data, senior_workers, junior_workers,
                work_hours_per_day, minimum_work_target, senior_time, junior_time >>
planVars == << rows, assignment, remaining_senior_time, remaining_junior_time,
               completed_count, priority_1_completed, placed, computed >>
mapVars == << df_sorted, remaining_quota, senior_workload, junior_workload,
              assigned_count, fit_seen, load_seen >>
envVars == << request, response, result_csv, employee_list_csv, strategy_manager,
             returned, runs >>
vars == << inputVars, planVars, mapVars, pc, pos, strategy_summary, run, prev,
           envVars >>

(***************************************************************************)
(* Helpers                                                                 *)
(***************************************************************************)
\* The sum of f over the integers of S between lo and hi.
RECURSIVE SumBetween(_, _, _, _)
SumBetween(S, f, lo, hi) ==
  IF lo > hi THEN 0
  ELSE IF lo = hi THEN (IF lo \in S THEN f[lo] ELSE 0)
  ELSE LET mid == (lo + hi) \div 2
       IN SumBetween(S, f, lo, mid) + SumBetween(S, f, mid + 1, hi)

\* sum(f[x] for x in S), S a set of row numbers or of difficulties
SumOver(S, f) ==
  IF S = {} THEN 0
  ELSE SumBetween(S, f, CHOOSE x \in S : \A y \in S : x <= y,
                        CHOOSE x \in S : \A y \in S : x >= y)

\* DataFrame.sort_values on one or two key columns: the rows of S by k1,
\* then k2, rows with equal keys in row order.  The planner reads only the
\* difficulty of the sorted rows, so the order among equal keys does not
\* reach its result.
RECURSIVE SortRows(_, _, _)
SortRows(S, k1, k2) ==
  IF S = {} THEN << >>
  ELSE LET m == CHOOSE i \in S : \A j \in S :
                  \/ k1[i] < k1[j]
                  \/ k1[i] = k1[j] /\ k2[i] <= k2[j]
           first == { i \in S : k1[i] = k1[m] /\ k2[i] = k2[m] }
       IN SelectSeq([i \in 1..Len(k1) |-> i], LAMBDA i : i \in first)
            \o SortRows(S \ first, k1, k2)

Rows(d) == DOMAIN d
PriorityOf(d) == [i \in DOMAIN d |-> d[i].priority]
DifficultyOf(d) == [i \in DOMAIN d |-> d[i].difficulty]
NoKey(d) == [i \in DOMAIN d |-> 0]

(***************************************************************************)
(* StrategyManager                                                         *)
(***************************************************************************)
\* str.upper() on the type strings that occur in rosters
Upper(str) ==
  CASE str = "senior" -> "SENIOR"
    [] str = "junior" -> "JUNIOR"
    [] OTHER -> str

\* _calculate_employee_counts, list of records with a type field
CountType(emp, t) == Cardinality({i \in DOMAIN emp : Upper(emp[i].type) = t})

\* get_employee_lists, list of records
EmployeeList(emp, t) ==
  LET sel == SelectSeq(emp, LAMBDA e : Upper(e.type) = t)
  IN [i \in DOMAIN sel |-> sel[i].id]

(***************************************************************************)
(* Quota planner: advanced_optimal_strategy                                *)
(***************************************************************************)
\* priority_1_work = df[df['priority'] == 1].sort_values('difficulty')
Priority1Work(d) ==
  SortRows({i \in Rows(d) : d[i].priority = 1}, DifficultyOf(d), NoKey(d))

\* other_work = df[df['priority'] != 1].sort_values(['priority', 'difficulty'])
OtherWork(d) ==
  SortRows({i \in Rows(d) : d[i].priority # 1}, PriorityOf(d), DifficultyOf(d))

\* The third loop over all rows of the input.
WholeWork(d, completed) ==
  SortRows(Rows(d), DifficultyOf(d), NoKey(d))

\* remaining_work = df.iloc[completed_count:].sort_values('difficulty'): the
\* rows after the first completed_count rows of the input, whichever rows
\* the first two phases counted.
RemainingWork(d, completed) ==
  SortRows({i \in Rows(d) : i > completed}, DifficultyOf(d), NoKey(d))

\* assignment[diff][k] += 1 on a defaultdict(lambda: [0, 0])
AddTo(a, diff, cls) ==
  LET old == IF diff \in DOMAIN a THEN a[diff] ELSE << 0, 0 >>
      new == IF cls = "senior" THEN << old[1] + 1, old[2] >>
                               ELSE << old[1], old[2] + 1 >>
  IN [k \in DOMAIN a \cup {diff} |-> IF k = diff THEN new ELSE a[k]]

\* Phase 1 with the classes tried in the other order.
Phase1JuniorFirst(diff, rs, rj) ==
  IF rj >= junior_time[diff] THEN "junior"
  ELSE IF rs >= senior_time[diff] THEN "senior"
  ELSE "none"

\* Phase 1: senior first, junior when the senior time does not suffice.
Phase1Choice(diff, rs, rj) ==
  IF rs >= senior_time[diff] THEN "senior"
  ELSE IF rj >= junior_time[diff] THEN "junior"
  ELSE "none"

\* Phase 2 with senior taken whenever it has time.
Phase2SeniorFirst(diff, rs, rj) ==
  IF rs >= senior_time[diff] THEN "senior"
  ELSE IF rj >= junior_time[diff] THEN "junior"
  ELSE "none"

\* Phase 2: the class with the higher 1/time when both have time (senior on
\* a tie), else the class that has time.  1/a >= 1/b on the floats of two
\* positive integers of this size holds exactly when a <= b.
Phase2Choice(diff, rs, rj) ==
  IF rs >= senior_time[diff] /\ rj >= junior_time[diff]
  THEN (IF junior_time[diff] >= senior_time[diff] THEN "senior" ELSE "junior")
  ELSE IF rs >= senior_time[diff] THEN "senior"
  ELSE IF rj >= junior_time[diff] THEN "junior"
  ELSE "none"

\* Phase 3 with the classes tried in the other order.
Phase3SeniorFirst(diff, rs, rj) ==
  IF rs >= senior_time[diff] THEN "senior"
  ELSE IF rj >= junior_time[diff] THEN "junior"
  ELSE "none"

\* Phase 3 without the test of the remaining senior time.
Phase3ChoiceUnchecked(diff, rs, rj) ==
  IF rj >= junior_time[diff] THEN "junior" ELSE "senior"

\* Phase 3: junior first.
Phase3Choice(diff, rs, rj) ==
  IF rj >= junior_time[diff] THEN "junior"
  ELSE IF rs >= senior_time[diff] THEN "senior"
  ELSE "none"

\* The second loop without its break.
TargetNeverReached(completed, target) == FALSE

\* if completed_count >= _minimum_work_target: break
TargetReached(completed, target) == completed >= target

\* No row counted yet; left1 is the <<senior, junior>> time left when the
\* first loop ended.
NothingPlaced ==
  [phase1 |-> {}, phase2 |-> {}, phase3 |-> {}, tried3 |-> {}, left1 |-> << >>]

\* The bookkeeping of one placement (or of none).
Place(cls, diff) ==
  /\ assignment' = IF cls = "none" THEN assignment ELSE AddTo(assignment, diff, cls)
  /\ remaining_senior_time' =
       IF cls = "senior" THEN remaining_senior_time - senior_time[diff]
                         ELSE remaining_senior_time
  /\ remaining_junior_time' =
       IF cls = "junior" THEN remaining_junior_time - junior_time[diff]
                         ELSE remaining_junior_time
  /\ completed_count' = IF cls = "none" THEN completed_count ELSE completed_count + 1

\* _senior_time[diff], _junior_time[diff]: a difficulty that is not a key of
\* both tables raises KeyError.
KeyError(diff) == diff \notin (DOMAIN senior_time \cap DOMAIN junior_time)

\* The exception leaves advanced_optimal_strategy and its callers; nothing
\* is returned.
Raise ==
  /\ pc' = "error"
  /\ UNCHANGED << envVars, inputVars, planVars, mapVars, pos, strategy_summary, run, prev >>

\* advanced_optimal_strategy as a function of its arguments (with the time
\* tables of the manager): the locals before the first loop, the bookkeeping
\* of one placement, the three loops, and the locals at the return or at
\* the KeyError.
PlanStart(s, j, w) ==
  [assignment |-> << >>,
   remaining_senior_time |-> s * w,
   remaining_junior_time |-> j * w,
   completed_count |-> 0,
   raised |-> FALSE]

Counted(st, cls, diff) ==
  CASE cls = "senior" ->
         [st EXCEPT !.assignment = AddTo(@, diff, cls),
                    !.remaining_senior_time = @ - senior_time[diff],
                    !.completed_count = @ + 1]
    [] cls = "junior" ->
         [st EXCEPT !.assignment = AddTo(@, diff, cls),
                    !.remaining_junior_time = @ - junior_time[diff],
                    !.completed_count = @ + 1]
    [] OTHER -> st

ChoiceOf(phase, diff, rs, rj) ==
  CASE phase = 1 -> Phase1Choice(diff, rs, rj)
    [] phase = 2 -> Phase2Choice(diff, rs, rj)
    [] OTHER -> Phase3Choice(diff, rs, rj)

RECURSIVE Loop(_, _, _, _, _, _)
Loop(phase, st, d, rws, k, target) ==
  IF k > Len(rws) \/ (phase = 2 /\ TargetReached(st.completed_count, target))
  THEN st
  ELSE LET diff == d[rws[k]].difficulty
       IN IF KeyError(diff) THEN [st EXCEPT !.raised = TRUE]
          ELSE Loop(phase,
                    Counted(st, ChoiceOf(phase, diff, st.remaining_senior_time,
                                         st.remaining_junior_time), diff),
                    d, rws, k + 1, target)

advanced_optimal_strategy(d, s, j, w, target) ==
  LET p1 == Loop(1, PlanStart(s, j, w), d, Priority1Work(d), 1, target)
      p2 == IF p1.raised THEN p1 ELSE Loop(2, p1, d, OtherWork(d), 1, target)
  IN IF p2.raised \/ p2.completed_count >= Len(d) THEN p2
     ELSE Loop(3, p2, d, RemainingWork(d, p2.completed_count), 1, target)

\* compute_optimal_strategy -> advanced_optimal_strategy, up to the first loop
ComputeStart ==
  /\ pc = "ready"
  /\ assignment' = << >>
  /\ remaining_senior_time' = senior_workers * work_hours_per_day
  /\ remaining_junior_time' = junior_workers * work_hours_per_day
  /\ completed_count' = 0
  /\ priority_1_completed' = 0
  /\ placed' = NothingPlaced
  /\ rows' = Priority1Work(df)
  /\ pos' = 1
  /\ pc' = "phase1"
  /\ UNCHANGED << envVars, inputVars, mapVars, computed, strategy_summary, run, prev >>

Phase1Step ==
  /\ pc = "phase1"
  /\ pos <= Len(rows)
  /\ IF KeyError(df[rows[pos]].difficulty)
     THEN Raise
     ELSE /\ LET diff == df[rows[pos]].difficulty
                 cls == Phase1Choice(diff, remaining_senior_time, remaining_junior_time)
             IN /\ Place(cls, diff)
                /\ priority_1_completed' =
                     IF cls = "none" THEN priority_1_completed ELSE priority_1_completed + 1
                /\ placed' = IF cls = "none" THEN placed
                             ELSE [placed EXCEPT !.phase1 = @ \cup {rows[pos]}]
          /\ pos' = pos + 1
          /\ UNCHANGED << envVars, inputVars, mapVars, rows, computed, pc, strategy_summary, run, prev >>

Phase2Start ==
  /\ pc = "phase1"
  /\ pos > Len(rows)
  /\ rows' = OtherWork(df)
  /\ pos' = 1
  /\ pc' = "phase2"
  /\ placed' = [placed EXCEPT !.left1 = << remaining_senior_time, remaining_junior_time >>]
  /\ UNCHANGED << envVars, inputVars, mapVars, assignment, remaining_senior_time,
                  remaining_junior_time, completed_count, priority_1_completed,
                  computed, strategy_summary, run, prev >>

Phase2Step ==
  /\ pc = "phase2"
  /\ pos <= Len(rows)
  /\ ~TargetReached(completed_count, minimum_work_target)
  /\ IF KeyError(df[rows[pos]].difficulty)
     THEN Raise
     ELSE /\ LET diff == df[rows[pos]].difficulty
                 cls == Phase2Choice(diff, remaining_senior_time, remaining_junior_time)
             IN /\ Place(cls, diff)
                /\ placed' = IF cls = "none" THEN placed
                             ELSE [placed EXCEPT !.phase2 = @ \cup {rows[pos]}]
          /\ pos' = pos + 1
          /\ UNCHANGED << envVars, inputVars, mapVars, rows, priority_1_completed, computed, pc,
                          strategy_summary, run, prev >>

\* The second loop ends at its last row or at the break.
Phase3Start ==
  /\ pc = "phase2"
  /\ pos > Len(rows) \/ TargetReached(completed_count, minimum_work_target)
  /\ rows' = IF completed_count < Len(df) THEN RemainingWork(df, completed_count)
             ELSE << >>
  /\ pos' = 1
  /\ pc' = "phase3"
  /\ UNCHANGED << envVars, inputVars, mapVars, assignment, remaining_senior_time,
                  remaining_junior_time, completed_count, priority_1_completed,
                  placed, computed, strategy_summary, run, prev >>

Phase3Step ==
  /\ pc = "phase3"
  /\ pos <= Len(rows)
  /\ IF KeyError(df[rows[pos]].difficulty)
     THEN Raise
     ELSE /\ LET diff == df[rows[pos]].difficulty
                 cls == Phase3Choice(diff, remaining_senior_time, remaining_junior_time)
             IN /\ Place(cls, diff)
                /\ placed' = [placed EXCEPT
                                !.tried3 = @ \cup {rows[pos]},
                                !.phase3 = IF cls = "none" THEN @ ELSE @ \cup {rows[pos]}]
          /\ pos' = pos + 1
          /\ UNCHANGED << envVars, inputVars, mapVars, rows, priority_1_completed, computed, pc,
                          strategy_summary, run, prev >>

\* return dict(assignment), remaining_senior_time, remaining_junior_time; the
\* manager keeps them and sets _computed.
PlanReturn ==
  /\ pc = "phase3"
  /\ pos > Len(rows)
  /\ computed' = TRUE
  /\ pc' = "planned"
  /\ UNCHANGED << envVars, inputVars, mapVars, rows, pos, assignment, remaining_senior_time,
                  remaining_junior_time, completed_count, priority_1_completed,
                  placed, strategy_summary, run, prev >>

NextPlanner ==
  \/ ComputeStart
  \/ Phase1Step
  \/ Phase2Start
  \/ Phase2Step
  \/ Phase3Start
  \/ Phase3Step
  \/ PlanReturn

\* No request, no local files, no global manager, no concurrent calls.
NoEnvironment ==
  /\ request = << >>
  /\ response = << >>
  /\ result_csv = << >>
  /\ employee_list_csv = << >>
  /\ strategy_manager = "None"
  /\ returned = << >>
  /\ runs = << >>

\* The state after StrategyManager(work_data, employee_data, **kwargs).
InitWith(in, budget, times) ==
  /\ df = in.df
  /\ employee_data = in.employee_data
  /\ senior_workers = CountType(in.employee_data, "SENIOR")
  /\ junior_workers = CountType(in.employee_data, "JUNIOR")
  /\ work_hours_per_day = budget
  /\ minimum_work_target = in.minimum_work_target
  /\ senior_time = times[1]
  /\ junior_time = times[2]
  /\ pc = "ready"
  /\ rows = << >>
  /\ pos = 1
  /\ assignment = << >>
  /\ remaining_senior_time = 0
  /\ remaining_junior_time = 0
  /\ completed_count = 0
  /\ priority_1_completed = 0
  /\ placed = NothingPlaced
  /\ computed = FALSE
  /\ df_sorted = << >>
  /\ remaining_quota = << >>
  /\ senior_workload = << >>
  /\ junior_workload = << >>
  /\ assigned_count = 0
  /\ fit_seen = {}
  /\ load_seen = << >>
  /\ strategy_summary = << >>
  /\ run = 1
  /\ prev = << >>
  /\ NoEnvironment

\* The planner on its own, with any daily budget.
InitPlanner ==
  \E in \in PlannerInputs, b \in BudgetSample, t \in TimeTables : InitWith(in, b, t)

SpecPlanner == InitPlanner /\ [][NextPlanner]_vars

(***************************************************************************)
(* Worker mapper: assign_workers_to_tasks                                  *)
(***************************************************************************)
\* The sorted frame with one row kept per (priority, difficulty).
SortedDroppingDuplicates(d) ==
  SortRows({i \in Rows(d) : \A j \in Rows(d) : j < i => d[j] # d[i]},
           PriorityOf(d), DifficultyOf(d))

\* The frame sorted with the least urgent rows first.
SortedLeastUrgentFirst(d) ==
  SortRows(Rows(d), [i \in DOMAIN d |-> 0 - d[i].priority], DifficultyOf(d))

\* df.sort_values(['priority', 'difficulty']).reset_index(drop=True)
SortedByPriorityDifficulty(d) ==
  SortRows(Rows(d), PriorityOf(d), DifficultyOf(d))

\* {worker: 0 for worker in workers}
ZeroWorkload(workers) == [w \in {workers[i] : i \in DOMAIN workers} |-> 0]

\* Available without the comparison with the daily budget.
AvailableUnchecked(workers, workload, time) == workers

\* [w for w in workers if workload[w] + time <= WORK_HOURS_PER_DAY]
Available(workers, workload, time) ==
  SelectSeq(workers, LAMBDA w : workload[w] + time <= WORK_HOURS_PER_DAY)

\* Any worker with the smallest workload, as a choice that is not tied to
\* the order of the list would give.
AnyLeastLoaded(available, workload) ==
  { available[k] : k \in { k \in DOMAIN available :
        \A j \in DOMAIN available :
           workload[available[k]] <= workload[available[j]] } }

\* The first worker of the list, whatever the workloads.
FirstAvailable(available, workload) == { available[1] }

\* min(available, key=lambda w: workload[w]): the first worker of the list
\* with the smallest workload.  The set of workers the call can return.
LeastLoaded(available, workload) ==
  { available[i] : i \in { k \in DOMAIN available :
        \A j \in DOMAIN available :
           \/ workload[available[k]] < workload[available[j]]
           \/ workload[available[k]] = workload[available[j]] /\ k <= j } }

\* senior_ratio > 0.6 with senior_ratio = senior_quota / total_quota
PreferSenior(difficulty, senior_quota, junior_quota) ==
  \/ difficulty \in HIGH_DIFFICULTY_LEVELS
  \/ 5 * senior_quota > 3 * (senior_quota + junior_quota)

\* Lines 97-176: the class the quota of the difficulty gives the row, "none"
\* when the quota gives none.
QuotaChoice(difficulty, senior_quota, junior_quota, canSenior, canJunior) ==
  IF senior_quota + junior_quota > 0
  THEN IF PreferSenior(difficulty, senior_quota, junior_quota) /\ senior_quota > 0
       THEN IF canSenior THEN "senior"
            ELSE IF junior_quota > 0 /\ canJunior THEN "junior"
            ELSE "none"
       ELSE IF junior_quota > 0
            THEN IF canJunior THEN "junior"
                 ELSE IF senior_quota > 0 /\ canSenior THEN "senior"
                 ELSE "none"
            ELSE IF senior_quota > 0 /\ canSenior THEN "senior"
            ELSE "none"
  ELSE "none"

\* Lines 178-229: placement without quota, by difficulty band.
OpportunisticChoice(difficulty, canSenior, canJunior) ==
  IF difficulty \in HIGH_DIFFICULTY_LEVELS
  THEN IF canSenior THEN "senior" ELSE IF canJunior THEN "junior" ELSE "none"
  ELSE IF canJunior THEN "junior" ELSE IF canSenior THEN "senior" ELSE "none"

\* if difficulty not in remaining_quota: continue
SkipsRow(difficulty, quota) == difficulty \notin DOMAIN quota

SeniorList == EmployeeList(employee_data, "SENIOR")
JuniorList == EmployeeList(employee_data, "JUNIOR")

AvailableSenior(difficulty) ==
  Available(SeniorList, senior_workload, SENIOR_TIME[difficulty])
AvailableJunior(difficulty) ==
  Available(JuniorList, junior_workload, JUNIOR_TIME[difficulty])

\* A placement that writes the worker and the minutes only.
SetAssignedWorkerOnly(out, idx, w, type, time) ==
  [out EXCEPT ![idx].assigned_worker = w,
              ![idx].estimated_time = time]

\* The three columns of a placed row: df_sorted.loc[idx, ...] = ...
SetAssigned(out, idx, w, type, time) ==
  [out EXCEPT ![idx].assigned_worker = w,
              ![idx].worker_type = type,
              ![idx].estimated_time = time]

\* Lines 26-82: the cached plan, the roster lists, the sorted frame with its
\* three new columns, the workloads and the quota table.
MapStart ==
  /\ pc = "planned"
  /\ df_sorted' =
       LET order == SortedByPriorityDifficulty(df)
       IN [i \in DOMAIN order |->
             [row |-> order[i],
              priority |-> df[order[i]].priority,
              difficulty |-> df[order[i]].difficulty,
              assigned_worker |-> UNASSIGNED,
              worker_type |-> UNASSIGNED,
              estimated_time |-> 0]]
  /\ senior_workload' = ZeroWorkload(SeniorList)
  /\ junior_workload' = ZeroWorkload(JuniorList)
  /\ remaining_quota' =
       [d \in DOMAIN assignment |->
          [senior |-> assignment[d][1], junior |-> assignment[d][2]]]
  /\ assigned_count' = 0
  /\ fit_seen' = {}
  /\ load_seen' = << >>
  /\ pos' = 1
  /\ pc' = "mapping"
  /\ UNCHANGED << envVars, inputVars, planVars, strategy_summary, run, prev >>

\* One iteration of the loop of lines 85-229.
MapStep ==
  /\ pc = "mapping"
  /\ pos <= Len(df_sorted)
  /\ LET difficulty == df_sorted[pos].difficulty
         avS == AvailableSenior(difficulty)
         avJ == AvailableJunior(difficulty)
         skip == SkipsRow(difficulty, remaining_quota)
         byQuota == IF skip THEN "none"
                    ELSE QuotaChoice(difficulty,
                                     remaining_quota[difficulty].senior,
                                     remaining_quota[difficulty].junior,
                                     avS # << >>, avJ # << >>)
         cls == IF skip THEN "none"
                ELSE IF byQuota # "none" THEN byQuota
                ELSE OpportunisticChoice(difficulty, avS # << >>, avJ # << >>)
     IN /\ fit_seen' = IF difficulty \in DOMAIN SENIOR_TIME
                            /\ (avS # << >> \/ avJ # << >>)
                       THEN fit_seen \cup {pos} ELSE fit_seen
        /\ load_seen' = Append(load_seen, [senior |-> senior_workload,
                                           junior |-> junior_workload])
        /\ remaining_quota' =
             IF byQuota = "senior"
             THEN [remaining_quota EXCEPT ![difficulty].senior = @ - 1]
             ELSE IF byQuota = "junior"
             THEN [remaining_quota EXCEPT ![difficulty].junior = @ - 1]
             ELSE remaining_quota
        /\ assigned_count' = IF cls = "none" THEN assigned_count ELSE assigned_count + 1
        /\ CASE cls = "senior" ->
                  \E w \in LeastLoaded(avS, senior_workload) :
                    /\ df_sorted' = SetAssigned(df_sorted, pos, w, "SENIOR",
                                                SENIOR_TIME[difficulty])
                    /\ senior_workload' =
                         [senior_workload EXCEPT ![w] = @ + SENIOR_TIME[difficulty]]
                    /\ UNCHANGED junior_workload
             [] cls = "junior" ->
                  \E w \in LeastLoaded(avJ, junior_workload) :
                    /\ df_sorted' = SetAssigned(df_sorted, pos, w, "JUNIOR",
                                                JUNIOR_TIME[difficulty])
                    /\ junior_workload' =
                         [junior_workload EXCEPT ![w] = @ + JUNIOR_TIME[difficulty]]
                    /\ UNCHANGED senior_workload
             [] OTHER ->
                  UNCHANGED << df_sorted, senior_workload, junior_workload >>
  /\ pos' = pos + 1
  /\ UNCHANGED << envVars, inputVars, planVars, pc, strategy_summary, run, prev >>

(***************************************************************************)
(* StrategyManager.get_strategy_summary                                    *)
(***************************************************************************)
PlanTotal(a, k) == SumOver(DOMAIN a, [d \in DOMAIN a |-> a[d][k]])

\* The divisors of the utilization and completion rates.
SummaryDivisors ==
  { senior_workers * work_hours_per_day,
    junior_workers * work_hours_per_day,
    (senior_workers + junior_workers) * work_hours_per_day,
    Len(df) }

StrategySummary ==
  LET total_completed == PlanTotal(assignment, 1) + PlanTotal(assignment, 2)
  IN [total_completed |-> total_completed,
      total_senior_assigned |-> PlanTotal(assignment, 1),
      total_junior_assigned |-> PlanTotal(assignment, 2),
      senior_time_used |->
        senior_workers * work_hours_per_day - remaining_senior_time,
      junior_time_used |->
        junior_workers * work_hours_per_day - remaining_junior_time,
      meets_minimum |-> total_completed >= minimum_work_target,
      leftover_senior |-> remaining_senior_time,
      leftover_junior |-> remaining_junior_time]

\* Line 245, after the loop: the summary of the plan.  A zero divisor raises
\* ZeroDivisionError and the call returns nothing.
Summarize ==
  /\ pc = "mapping"
  /\ pos > Len(df_sorted)
  /\ IF 0 \in SummaryDivisors
     THEN pc' = "error" /\ UNCHANGED strategy_summary
     ELSE pc' = "done" /\ strategy_summary' = StrategySummary
  /\ UNCHANGED << envVars, inputVars, planVars, mapVars, pos, run, prev >>

(***************************************************************************)
(* A second call on the same work data                                     *)
(***************************************************************************)
AssignedRows(out) == {i \in DOMAIN out : out[i].assigned_worker # UNASSIGNED}
UnassignedRows(out) == {i \in DOMAIN out : out[i].assigned_worker = UNASSIGNED}

Returned ==
  [employee_data |-> employee_data,
   assignment |-> assignment,
   leftover_senior |-> remaining_senior_time,
   leftover_junior |-> remaining_junior_time,
   df_sorted |-> df_sorted,
   senior_workload |-> senior_workload,
   junior_workload |-> junior_workload]

\* The roster with one more worker of a class, or the same roster.
Staffed(emp, extra) ==
  IF extra = "SENIOR"
  THEN Append(emp, [id |-> SeniorIds[CountType(emp, "SENIOR") + 1], type |-> "SENIOR"])
  ELSE IF extra = "JUNIOR"
  THEN Append(emp, [id |-> JuniorIds[CountType(emp, "JUNIOR") + 1], type |-> "JUNIOR"])
  ELSE emp

Rerun ==
  /\ pc = "done"
  /\ run = 1
  /\ \E extra \in {"none", "SENIOR", "JUNIOR"} :
       LET emp == Staffed(employee_data, extra)
       IN /\ employee_data' = emp
          /\ senior_workers' = CountType(emp, "SENIOR")
          /\ junior_workers' = CountType(emp, "JUNIOR")
  /\ prev' = Returned
  /\ run' = 2
  /\ pc' = "ready"
  /\ rows' = << >>
  /\ pos' = 1
  /\ assignment' = << >>
  /\ remaining_senior_time' = 0
  /\ remaining_junior_time' = 0
  /\ completed_count' = 0
  /\ priority_1_completed' = 0
  /\ placed' = NothingPlaced
  /\ computed' = FALSE
  /\ df_sorted' = << >>
  /\ remaining_quota' = << >>
  /\ senior_workload' = << >>
  /\ junior_workload' = << >>
  /\ assigned_count' = 0
  /\ fit_seen' = {}
  /\ load_seen' = << >>
  /\ strategy_summary' = << >>
  /\ UNCHANGED << envVars, df, work_hours_per_day, minimum_work_target,
                  senior_time, junior_time >>

(***************************************************************************)
(* Specifications                                                          *)
(***************************************************************************)
Init == \E in \in Inputs : InitWith(in, WORK_HOURS_PER_DAY, ConfiguredTimes)

Next ==
  \/ ComputeStart
  \/ Phase1Step
  \/ Phase2Start
  \/ Phase2Step
  \/ Phase3Start
  \/ Phase3Step
  \/ PlanReturn
  \/ MapStart
  \/ MapStep
  \/ Summarize
  \/ Rerun

Spec == Init /\ [][Next]_vars

(***************************************************************************)
(* POST /api/assign                                                        *)
(***************************************************************************)
\* config_params.MINIMUM_WORK_TARGET, the target of a manager made without
\* a minimum_work_target argument
MINIMUM_WORK_TARGET == 300

\* JSON null, Python None
None == "null"

\* Objects of a work list: with the three core fields, or lacking one.
WorkObjects ==
  { [measure_record_oid |-> 1, priority |-> 1, difficulty |-> 1],
    [measure_record_oid |-> 2, priority |-> 2, difficulty |-> 7],
    [priority |-> 1, difficulty |-> 1],
    [measure_record_oid |-> 1, difficulty |-> 1],
    [measure_record_oid |-> 1, priority |-> 1] }

\* Objects of an employee list: of a type in either case, of another type,
\* of type null, or lacking a field.
EmployeeObjects ==
  { [id |-> "S1", type |-> "SENIOR"],
    [id |-> "J1", type |-> "JUNIOR"],
    [id |-> "S2", type |-> "senior"],
    [id |-> "X1", type |-> "INVALID"],
    [id |-> "X2", type |-> None],
    [id |-> "X3"],
    [type |-> "SENIOR"] }

ListsOf(S, n) == UNION { [1..k -> S] : k \in 0..n }

\* More work than the one junior worker of the request has time for.
CrowdedRequest ==
  [work_list |-> [i \in 1..6 |-> [measure_record_oid |-> i, priority |-> 2,
                                  difficulty |-> 7]],
   employee_list |-> << [id |-> "J1", type |-> "JUNIOR"] >>]

\* Bodies with both lists, with one list, and the empty body.
Requests ==
  { [work_list |-> w, employee_list |-> e] :
      w \in ListsOf(WorkObjects, MaxItems - 1),
      e \in ListsOf(EmployeeObjects, MaxItems - 1) }
  \cup { [work_list |-> w] : w \in ListsOf(WorkObjects, 1) }
  \cup { [employee_list |-> e] : e \in ListsOf(EmployeeObjects, 1) }
  \cup { << >>, CrowdedRequest }

\* dict.get(key, default)
Get(dict, key, default) == IF key \in DOMAIN dict THEN dict[key] ELSE default

\* validate_work_data: a non-empty list of objects that have the core
\* fields; float() of a JSON number does not fail.
validate_work_data(work_data) ==
  /\ Len(work_data) # 0
  /\ \A i \in DOMAIN work_data :
       {"measure_record_oid", "priority", "difficulty"} \subseteq DOMAIN work_data[i]

\* One turn of the loop of validate_employee_data: the record passes, the
\* function returns False, or None.upper() raises AttributeError.
EmployeeCheck(employee) ==
  IF ~({"id", "type"} \subseteq DOMAIN employee) THEN "False"
  ELSE IF employee.type = None THEN "AttributeError"
  ELSE IF Upper(employee.type) \notin {"SENIOR", "JUNIOR"} THEN "False"
  ELSE "pass"

\* validate_employee_data: the first record that does not pass decides.
validate_employee_data(employees) ==
  LET bad == { i \in DOMAIN employees : EmployeeCheck(employees[i]) # "pass" }
  IN IF Len(employees) = 0 THEN "False"
     ELSE IF bad = {} THEN "True"
     ELSE EmployeeCheck(employees[CHOOSE i \in bad : \A j \in bad : i <= j])

\* pd.DataFrame(work_data): the columns the planner and the mapper read
DataFrame(work_data) ==
  [i \in DOMAIN work_data |->
     [priority |-> work_data[i].priority, difficulty |-> work_data[i].difficulty]]

\* jsonify(...), status
Answer(status) ==
  /\ response' = [status |-> status, success |-> status = 200]
  /\ pc' = "answered"

\* assign_work up to the call of process_assignment: the two validations,
\* then assign_workers_to_tasks on a new manager with the configured
\* parameters.
AssignWork ==
  /\ pc = "request"
  /\ LET work_list == Get(request, "work_list", << >>)
         employee_list == Get(request, "employee_list", << >>)
         valid == validate_employee_data(employee_list)
     IN IF request = << >> \/ ~validate_work_data(work_list) \/ valid = "False"
        THEN Answer(400) /\ UNCHANGED << df, employee_data, senior_workers, junior_workers >>
        ELSE IF valid = "AttributeError"
        THEN Answer(500) /\ UNCHANGED << df, employee_data, senior_workers, junior_workers >>
        ELSE /\ df' = DataFrame(work_list)
             /\ employee_data' = employee_list
             /\ senior_workers' = CountType(employee_list, "SENIOR")
             /\ junior_workers' = CountType(employee_list, "JUNIOR")
             /\ pc' = "ready"
             /\ UNCHANGED response
  /\ UNCHANGED << work_hours_per_day, minimum_work_target, senior_time, junior_time,
                  planVars, mapVars, pos, strategy_summary, run, prev, request,
                  result_csv, employee_list_csv, strategy_manager, returned, runs >>

\* process_assignment after assign_workers_to_tasks and the end of
\* assign_work: the result with 200, or the exception with 500.
Respond ==
  /\ request # << >>
  /\ pc \in {"done", "error"}
  /\ Answer(IF pc = "done" THEN 200 ELSE 500)
  /\ UNCHANGED << inputVars, planVars, mapVars, pos, strategy_summary, run, prev,
                  request, result_csv, employee_list_csv, strategy_manager, returned,
                  runs >>

\* The server with one request on its way.
InitApi ==
  /\ request \in Requests
  /\ response = << >>
  /\ pc = "request"
  /\ df = << >>
  /\ employee_data = << >>
  /\ senior_workers = 0
  /\ junior_workers = 0
  /\ work_hours_per_day = WORK_HOURS_PER_DAY
  /\ minimum_work_target = MINIMUM_WORK_TARGET
  /\ senior_time = SENIOR_TIME
  /\ junior_time = JUNIOR_TIME
  /\ rows = << >>
  /\ pos = 1
  /\ assignment = << >>
  /\ remaining_senior_time = 0
  /\ remaining_junior_time = 0
  /\ completed_count = 0
  /\ priority_1_completed = 0
  /\ placed = NothingPlaced
  /\ computed = FALSE
  /\ df_sorted = << >>
  /\ remaining_quota = << >>
  /\ senior_workload = << >>
  /\ junior_workload = << >>
  /\ assigned_count = 0
  /\ fit_seen = {}
  /\ load_seen = << >>
  /\ strategy_summary = << >>
  /\ run = 1
  /\ prev = << >>
  /\ result_csv = << >>
  /\ employee_list_csv = << >>
  /\ strategy_manager = "None"
  /\ returned = << >>
  /\ runs = << >>

NextApi ==
  \/ AssignWork
  \/ ComputeStart
  \/ Phase1Step
  \/ Phase2Start
  \/ Phase2Step
  \/ Phase3Start
  \/ Phase3Step
  \/ PlanReturn
  \/ MapStart
  \/ MapStep
  \/ Summarize
  \/ Respond

SpecApi == InitApi /\ [][NextApi]_vars

(***************************************************************************)
(* StrategyManager as an object                                            *)
(***************************************************************************)
\* self._df is None (a work data file is never without rows)
NoData == << >>

\* The roster argument of a manager: None, a list of records, or a
\* DataFrame with the columns id and type.
NoRoster == [form |-> "None"]
RosterList(records) == [form |-> "list", records |-> records]
RosterFrame(records) == [form |-> "DataFrame", records |-> records]

\* _calculate_employee_counts: <<senior_workers, junior_workers>>.  Without
\* a roster the counts are those of the local roster file
\* (get_dynamic_worker_counts); a list that is empty or whose first record
\* has no type is split by the default ratio.
EmployeeCounts(roster) ==
  CASE roster.form = "None" ->
         << CountType(employee_list_csv, "SENIOR"), CountType(employee_list_csv, "JUNIOR") >>
    [] roster.form = "DataFrame" ->
         << CountType(roster.records, "SENIOR"), CountType(roster.records, "JUNIOR") >>
    [] OTHER ->
         IF Len(roster.records) > 0 /\ "type" \in DOMAIN roster.records[1]
         THEN << CountType(roster.records, "SENIOR"), CountType(roster.records, "JUNIOR") >>
         ELSE LET total == Len(roster.records)
                  senior == IF total \div 3 > 1 THEN total \div 3 ELSE 1
              IN << senior, total - senior >>

\* get_employee_lists: <<senior ids, junior ids>>, of the local roster file
\* without a roster.
get_employee_lists(roster) ==
  IF roster.form = "None"
  THEN << EmployeeList(employee_list_csv, "SENIOR"), EmployeeList(employee_list_csv, "JUNIOR") >>
  ELSE << EmployeeList(roster.records, "SENIOR"), EmployeeList(roster.records, "JUNIOR") >>

\* StrategyManager(work_data, employee_data, work_hours_per_day = w,
\* minimum_work_target = target): the fields of the new instance.  The
\* counts come from _calculate_employee_counts, whatever other keyword
\* arguments are given.
StrategyManager(work_data, roster, w, target) ==
  [df |-> work_data,
   senior_workers |-> EmployeeCounts(roster)[1],
   junior_workers |-> EmployeeCounts(roster)[2],
   work_hours_per_day |-> w,
   minimum_work_target |-> target,
   computed |-> FALSE,
   optimal_assignment |-> << >>,
   leftover_senior |-> 0,
   leftover_junior |-> 0]

\* The instance whose fields the variables hold.
Manager ==
  [df |-> df,
   senior_workers |-> senior_workers,
   junior_workers |-> junior_workers,
   work_hours_per_day |-> work_hours_per_day,
   minimum_work_target |-> minimum_work_target,
   computed |-> computed,
   optimal_assignment |-> assignment,
   leftover_senior |-> remaining_senior_time,
   leftover_junior |-> remaining_junior_time]

Store(m) ==
  /\ df' = m.df
  /\ senior_workers' = m.senior_workers
  /\ junior_workers' = m.junior_workers
  /\ work_hours_per_day' = m.work_hours_per_day
  /\ minimum_work_target' = m.minimum_work_target
  /\ computed' = m.computed
  /\ assignment' = m.optimal_assignment
  /\ remaining_senior_time' = m.leftover_senior
  /\ remaining_junior_time' = m.leftover_junior

\* _computed left as it is.
KeepComputed(m) == m

\* self._computed = False
ClearComputed(m) == [m EXCEPT !.computed = FALSE]

\* load_data: the rows of the file, and the plan is to be computed again.
load_data(m) == ClearComputed([m EXCEPT !.df = result_csv])

\* update_parameters, the fields other than the time tables
update_parameters(m, kwargs) ==
  ClearComputed([m EXCEPT
    !.senior_workers = Get(kwargs, "senior_workers", @),
    !.junior_workers = Get(kwargs, "junior_workers", @),
    !.work_hours_per_day = Get(kwargs, "work_hours_per_day", @),
    !.minimum_work_target = Get(kwargs, "minimum_work_target", @)])

\* compute_optimal_strategy: the cached plan, or the plan of the planner for
\* the fields of the instance, kept with _computed set; a KeyError leaves
\* the cache as it was.
compute_optimal_strategy(m, force_recompute) ==
  IF m.computed /\ ~force_recompute THEN m
  ELSE LET loaded == IF m.df = NoData THEN load_data(m) ELSE m
           plan == advanced_optimal_strategy(loaded.df, loaded.senior_workers,
                     loaded.junior_workers, loaded.work_hours_per_day,
                     loaded.minimum_work_target)
       IN IF plan.raised THEN loaded
          ELSE [loaded EXCEPT !.optimal_assignment = plan.assignment,
                              !.leftover_senior = plan.remaining_senior_time,
                              !.leftover_junior = plan.remaining_junior_time,
                              !.computed = TRUE]

\* get_optimal_assignment, get_leftover_time, get_strategy_summary start
\* with: if not self._computed: self.compute_optimal_strategy()
Computed(m) == IF m.computed THEN m ELSE compute_optimal_strategy(m, FALSE)

\* get_strategy_summary of an instance with a plan; a zero divisor raises
\* ZeroDivisionError.
get_strategy_summary(m) ==
  LET total_senior == PlanTotal(m.optimal_assignment, 1)
      total_junior == PlanTotal(m.optimal_assignment, 2)
  IN [raised |-> \/ m.senior_workers * m.work_hours_per_day = 0
                 \/ m.junior_workers * m.work_hours_per_day = 0
                 \/ (m.senior_workers + m.junior_workers) * m.work_hours_per_day = 0
                 \/ Len(m.df) = 0,
      total_completed |-> total_senior + total_junior,
      meets_minimum |-> total_senior + total_junior >= m.minimum_work_target,
      leftover_senior |-> m.leftover_senior,
      leftover_junior |-> m.leftover_junior]

\* No planner loop and no mapper at work.
PlannerIdle ==
  /\ rows = << >>
  /\ pos = 1
  /\ completed_count = 0
  /\ priority_1_completed = 0
  /\ placed = NothingPlaced

MapperIdle ==
  /\ df_sorted = << >>
  /\ remaining_quota = << >>
  /\ senior_workload = << >>
  /\ junior_workload = << >>
  /\ assigned_count = 0
  /\ fit_seen = {}
  /\ load_seen = << >>
  /\ strategy_summary = << >>
  /\ run = 1
  /\ prev = << >>

\* Two work data files and the rosters of a manager.
ManagerLists ==
  { << Item(<<1, 7>>), Item(<<2, 1>>) >>,
    << Item(<<2, 7>>), Item(<<2, 1>>), Item(<<1, 1>>) >> }

\* Keyword arguments of update_parameters: none, one parameter, the time
\* tables, or all parameters.
KwargsSample ==
  { << >> }
  \cup { [senior_workers |-> n] : n \in 0..MaxSenior }
  \cup { [minimum_work_target |-> t] : t \in {1, MaxTarget} }
  \cup { [junior_workers |-> 0],
         [work_hours_per_day |-> 60],
         [senior_time |-> SENIOR_TIME, junior_time |-> FAST_JUNIOR_TIME],
         [senior_workers |-> 1, junior_workers |-> 1,
          work_hours_per_day |-> WORK_HOURS_PER_DAY,
          minimum_work_target |-> MINIMUM_WORK_TARGET,
          senior_time |-> SENIOR_TIME, junior_time |-> JUNIOR_TIME] }

\* The other variables of an operation on the instance.
ManagerFrame ==
  UNCHANGED << employee_data, pc, rows, pos, completed_count, priority_1_completed,
               placed, mapVars, strategy_summary, run, prev, request, response,
               employee_list_csv, strategy_manager, runs >>

\* The work data file is written by another program.
WriteResultCsv ==
  /\ pc \in {"manager", "entry"}
  /\ result_csv' \in ManagerLists \ {result_csv}
  /\ UNCHANGED << inputVars, planVars, mapVars, pc, pos, strategy_summary, run, prev,
                  request, response, employee_list_csv, strategy_manager, returned,
                  runs >>

LoadData ==
  /\ pc = "manager"
  /\ Store(load_data(Manager))
  /\ returned' = [call |-> "load_data"]
  /\ UNCHANGED << senior_time, junior_time, result_csv >>
  /\ ManagerFrame

UpdateParameters ==
  /\ pc = "manager"
  /\ \E kwargs \in KwargsSample :
       /\ Store(update_parameters(Manager, kwargs))
       /\ senior_time' = Get(kwargs, "senior_time", senior_time)
       /\ junior_time' = Get(kwargs, "junior_time", junior_time)
  /\ returned' = [call |-> "update_parameters"]
  /\ UNCHANGED result_csv
  /\ ManagerFrame

ComputeOptimalStrategy ==
  /\ pc = "manager"
  /\ \E force_recompute \in BOOLEAN :
       /\ Store(compute_optimal_strategy(Manager, force_recompute))
       /\ returned' = [call |-> "compute_optimal_strategy",
                       cached |-> computed /\ ~force_recompute,
                       optimal_assignment |-> assignment',
                       leftover_senior |-> remaining_senior_time',
                       leftover_junior |-> remaining_junior_time']
  /\ UNCHANGED << senior_time, junior_time, result_csv >>
  /\ ManagerFrame

GetOptimalAssignment ==
  /\ pc = "manager"
  /\ Store(Computed(Manager))
  /\ returned' = [call |-> "get_optimal_assignment", optimal_assignment |-> assignment']
  /\ UNCHANGED << senior_time, junior_time, result_csv >>
  /\ ManagerFrame

GetLeftoverTime ==
  /\ pc = "manager"
  /\ Store(Computed(Manager))
  /\ returned' = [call |-> "get_leftover_time",
                  leftover_senior |-> remaining_senior_time',
                  leftover_junior |-> remaining_junior_time']
  /\ UNCHANGED << senior_time, junior_time, result_csv >>
  /\ ManagerFrame

GetStrategySummary ==
  /\ pc = "manager"
  /\ Store(Computed(Manager))
  /\ returned' = [call |-> "get_strategy_summary",
                  summary |-> get_strategy_summary(Computed(Manager))]
  /\ UNCHANGED << senior_time, junior_time, result_csv >>
  /\ ManagerFrame

\* A manager made for work data (or for the file) and a roster, with the
\* configured parameters.
InitManager ==
  /\ \E roster \in { Roster(1, 1), Roster(0, 1) } :
       /\ employee_data = roster
       /\ senior_workers = CountType(roster, "SENIOR")
       /\ junior_workers = CountType(roster, "JUNIOR")
  /\ df \in ManagerLists \cup {NoData}
  /\ result_csv \in ManagerLists
  /\ work_hours_per_day = WORK_HOURS_PER_DAY
  /\ minimum_work_target = MINIMUM_WORK_TARGET
  /\ senior_time = SENIOR_TIME
  /\ junior_time = JUNIOR_TIME
  /\ computed = FALSE
  /\ assignment = << >>
  /\ remaining_senior_time = 0
  /\ remaining_junior_time = 0
  /\ pc = "manager"
  /\ PlannerIdle
  /\ MapperIdle
  /\ request = << >>
  /\ response = << >>
  /\ employee_list_csv = << >>
  /\ strategy_manager = "None"
  /\ returned = << >>
  /\ runs = << >>

NextManager ==
  \/ WriteResultCsv
  \/ LoadData
  \/ UpdateParameters
  \/ ComputeOptimalStrategy
  \/ GetOptimalAssignment
  \/ GetLeftoverTime
  \/ GetStrategySummary

SpecManager == InitManager /\ [][NextManager]_vars

(***************************************************************************)
(* The mapper as a function of its inputs                                  *)
(***************************************************************************)
\* Lines 64-82 of assign_workers_to_tasks: the sorted frame with its three
\* new columns, the workloads and the quota table.
MapperStart(d, plan, seniors, juniors) ==
  [df_sorted |->
     LET order == SortedByPriorityDifficulty(d)
     IN [i \in DOMAIN order |->
           [row |-> order[i],
            priority |-> d[order[i]].priority,
            difficulty |-> d[order[i]].difficulty,
            assigned_worker |-> UNASSIGNED,
            worker_type |-> UNASSIGNED,
            estimated_time |-> 0]],
   remaining_quota |->
     [x \in DOMAIN plan |-> [senior |-> plan[x][1], junior |-> plan[x][2]]],
   senior_workload |-> ZeroWorkload(seniors),
   junior_workload |-> ZeroWorkload(juniors),
   assigned_count |-> 0]

\* The row k given to the least loaded available worker of the class.
AssignedTo(st, k, cls, seniors, juniors) ==
  LET difficulty == st.df_sorted[k].difficulty
  IN CASE cls = "senior" ->
            LET time == SENIOR_TIME[difficulty]
                w == CHOOSE w \in LeastLoaded(Available(seniors, st.senior_workload, time),
                                              st.senior_workload) : TRUE
            IN [st EXCEPT !.df_sorted = SetAssigned(@, k, w, "SENIOR", time),
                          !.senior_workload[w] = @ + time,
                          !.assigned_count = @ + 1]
       [] cls = "junior" ->
            LET time == JUNIOR_TIME[difficulty]
                w == CHOOSE w \in LeastLoaded(Available(juniors, st.junior_workload, time),
                                              st.junior_workload) : TRUE
            IN [st EXCEPT !.df_sorted = SetAssigned(@, k, w, "JUNIOR", time),
                          !.junior_workload[w] = @ + time,
                          !.assigned_count = @ + 1]
       [] OTHER -> st

\* The quota of the difficulty of row k, less one for the class.
QuotaUsed(st, k, cls) ==
  LET difficulty == st.df_sorted[k].difficulty
  IN CASE cls = "senior" -> [st EXCEPT !.remaining_quota[difficulty].senior = @ - 1]
       [] cls = "junior" -> [st EXCEPT !.remaining_quota[difficulty].junior = @ - 1]
       [] OTHER -> st

\* One iteration of the loop of assign_workers_to_tasks, lines 85-229.
MappedRow(st, k, seniors, juniors) ==
  LET difficulty == st.df_sorted[k].difficulty
  IN IF SkipsRow(difficulty, st.remaining_quota) THEN st
     ELSE LET canSenior == Available(seniors, st.senior_workload,
                                     SENIOR_TIME[difficulty]) # << >>
              canJunior == Available(juniors, st.junior_workload,
                                     JUNIOR_TIME[difficulty]) # << >>
              byQuota == QuotaChoice(difficulty,
                                     st.remaining_quota[difficulty].senior,
                                     st.remaining_quota[difficulty].junior,
                                     canSenior, canJunior)
              cls == IF byQuota # "none" THEN byQuota
                     ELSE OpportunisticChoice(difficulty, canSenior, canJunior)
          IN AssignedTo(QuotaUsed(st, k, byQuota), k, cls, seniors, juniors)

\* One iteration of the loop of assign_workers_with_json_input: the senior
\* quota, then the junior quota, then the class that is not the slower one.
JsonMappedRow(st, k, seniors, juniors) ==
  LET difficulty == st.df_sorted[k].difficulty
  IN IF SkipsRow(difficulty, st.remaining_quota) THEN st
     ELSE LET canSenior == Available(seniors, st.senior_workload,
                                     SENIOR_TIME[difficulty]) # << >>
              canJunior == Available(juniors, st.junior_workload,
                                     JUNIOR_TIME[difficulty]) # << >>
              byQuota ==
                IF st.remaining_quota[difficulty].senior > 0 /\ canSenior THEN "senior"
                ELSE IF st.remaining_quota[difficulty].junior > 0 /\ canJunior
                THEN "junior"
                ELSE "none"
              cls == IF byQuota # "none" THEN byQuota
                     ELSE IF SENIOR_TIME[difficulty] <= JUNIOR_TIME[difficulty] /\ canSenior
                     THEN "senior"
                     ELSE IF canJunior THEN "junior"
                     ELSE "none"
          IN AssignedTo(QuotaUsed(st, k, byQuota), k, cls, seniors, juniors)

RECURSIVE MappedRows(_, _, _, _, _)
\* The loop from row k on; json selects the loop of
\* assign_workers_with_json_input.
MappedRows(st, k, seniors, juniors, json) ==
  IF k > Len(st.df_sorted) THEN st
  ELSE MappedRows(IF json THEN JsonMappedRow(st, k, seniors, juniors)
                  ELSE MappedRow(st, k, seniors, juniors),
                  k + 1, seniors, juniors, json)

(***************************************************************************)
(* Entry points and the global StrategyManager                             *)
(***************************************************************************)
\* The contents of employee_list.csv
EntryRosters == { Roster(1, 1), Roster(2, 1), Roster(1, 2) }

\* The roster argument of assign_workers_to_tasks
RosterArguments ==
  { NoRoster,
    RosterList(Roster(2, 1)),
    RosterList(<< [id |-> "S1", type |-> "senior"], [id |-> "J1", type |-> "JUNIOR"] >>),
    RosterFrame(Roster(1, 2)) }

\* assigned_worker_json: none, or the two lists of ids.
JsonRosters ==
  { << >>,
    [senior_workers |-> << "S1", "S2" >>, junior_workers |-> << "J1" >>],
    [senior_workers |-> << "S1" >>, junior_workers |-> << "J1", "J2" >>],
    [senior_workers |-> << "S1" >>] }

\* _strategy_manager, made by StrategyManager() when there is none.
GlobalManager ==
  IF strategy_manager = "None"
  THEN StrategyManager(NoData, NoRoster, WORK_HOURS_PER_DAY, MINIMUM_WORK_TARGET)
  ELSE Manager

\* get_strategy_manager(work_data, employee_data): a new instance for any
\* argument, the global instance for none.
UsesGlobal(work_data, roster) == work_data = NoData /\ roster.form = "None"

get_strategy_manager(work_data, roster) ==
  IF UsesGlobal(work_data, roster) THEN GlobalManager
  ELSE StrategyManager(work_data, roster, WORK_HOURS_PER_DAY, MINIMUM_WORK_TARGET)

\* The global instance after a call that went through it; a new instance is
\* dropped with the call.
Kept(m, global) ==
  IF global
  THEN Store(m) /\ strategy_manager' = "StrategyManager"
  ELSE UNCHANGED << df, senior_workers, junior_workers, work_hours_per_day,
                    minimum_work_target, computed, assignment,
                    remaining_senior_time, remaining_junior_time, strategy_manager >>

EntryFrame ==
  UNCHANGED << employee_data, senior_time, junior_time, pc, rows, pos, completed_count,
               priority_1_completed, placed, mapVars, strategy_summary, run, prev,
               request, response, result_csv, employee_list_csv, runs >>

\* One record per distinct id of a list, in the order of the list.
IdSet(ids) == { ids[i] : i \in DOMAIN ids }

\* The roster file is written by another program.
WriteEmployeeList ==
  /\ pc = "entry"
  /\ employee_list_csv' \in EntryRosters \ {employee_list_csv}
  /\ UNCHANGED << inputVars, planVars, mapVars, pc, pos, strategy_summary, run, prev,
                  request, response, result_csv, strategy_manager, returned, runs >>

\* strategy_manager.get_optimal_assignment(work_data, employee_data), the
\* function of the module.
GetOptimalAssignmentCall ==
  /\ pc = "entry"
  /\ \E work_data \in {NoData} \cup ManagerLists, roster \in RosterArguments :
     \E m \in { Computed(get_strategy_manager(work_data, roster)) },
        lists \in { get_employee_lists(roster) } :
          /\ Kept(m, UsesGlobal(work_data, roster))
          /\ returned' =
               [call |-> "get_optimal_assignment",
                work_data |-> IF work_data = NoData THEN result_csv ELSE work_data,
                senior_ids |-> IdSet(lists[1]),
                junior_ids |-> IdSet(lists[2]),
                senior_workers |-> m.senior_workers,
                junior_workers |-> m.junior_workers,
                work_hours_per_day |-> m.work_hours_per_day,
                minimum_work_target |-> m.minimum_work_target,
                optimal_assignment |-> m.optimal_assignment]
  /\ EntryFrame

\* assign_workers_to_tasks(work_data, employee_data)
AssignWorkersToTasks ==
  /\ pc = "entry"
  /\ \E work_data \in {NoData} \cup ManagerLists, roster \in RosterArguments :
     \E got \in { get_strategy_manager(work_data, roster) },
        lists \in { get_employee_lists(roster) } :
     \E m \in { Computed(IF got.df = NoData THEN load_data(got) ELSE got) } :
     \E mapped \in { MappedRows(MapperStart(m.df, m.optimal_assignment,
                                            lists[1], lists[2]),
                                1, lists[1], lists[2], FALSE) } :
          /\ Kept(m, UsesGlobal(work_data, roster))
          /\ returned' =
               [call |-> "assign_workers_to_tasks",
                work_data |-> IF work_data = NoData THEN result_csv ELSE work_data,
                senior_ids |-> IdSet(lists[1]),
                junior_ids |-> IdSet(lists[2]),
                senior_workers |-> m.senior_workers,
                junior_workers |-> m.junior_workers,
                work_hours_per_day |-> m.work_hours_per_day,
                minimum_work_target |-> m.minimum_work_target,
                optimal_assignment |-> m.optimal_assignment,
                df_sorted |-> mapped.df_sorted,
                senior_workload |-> mapped.senior_workload,
                junior_workload |-> mapped.junior_workload,
                raised |-> get_strategy_summary(m).raised]
  /\ EntryFrame

\* assign_workers_with_json_input(assigned_worker_json)
AssignWorkersWithJsonInput ==
  /\ pc = "entry"
  /\ \E assigned_worker_json \in JsonRosters :
     \E lists \in { IF assigned_worker_json # << >>
                     THEN << Get(assigned_worker_json, "senior_workers", << >>),
                             Get(assigned_worker_json, "junior_workers", << >>) >>
                     ELSE get_employee_lists(NoRoster) },
        m \in { Computed(load_data(GlobalManager)) } :
     \E mapped \in { MappedRows(MapperStart(result_csv, m.optimal_assignment,
                                            lists[1], lists[2]),
                                1, lists[1], lists[2], TRUE) } :
          /\ Kept(m, TRUE)
          /\ returned' =
               [call |-> "assign_workers_with_json_input",
                work_data |-> result_csv,
                senior_ids |-> IdSet(lists[1]),
                junior_ids |-> IdSet(lists[2]),
                senior_workers |-> m.senior_workers,
                junior_workers |-> m.junior_workers,
                work_hours_per_day |-> m.work_hours_per_day,
                minimum_work_target |-> m.minimum_work_target,
                optimal_assignment |-> m.optimal_assignment,
                df_sorted |-> mapped.df_sorted,
                senior_workload |-> mapped.senior_workload,
                junior_workload |-> mapped.junior_workload]
  /\ EntryFrame

(***************************************************************************)
(* IncrementalWorkforceCalculator.evaluate_configuration                   *)
(***************************************************************************)
\* The manager of evaluate_configuration(senior_workers, junior_workers):
\* StrategyManager(senior_workers=..., junior_workers=..., ...) with no work
\* data and no roster, then load_data.
ConfigurationManager(s, j, w, target) ==
  load_data(StrategyManager(NoData, NoRoster, w, target))

\* The result of evaluate_configuration of a calculator with the budget w
\* and the target.
ConfigurationResult(s, j, w, target, summary) ==
  [call |-> "evaluate_configuration",
   work_data |-> result_csv,
   work_hours_per_day |-> w,
   minimum_work_target |-> target,
   raised |-> summary.raised,
   senior_workers |-> s,
   junior_workers |-> j,
   total_workers |-> s + j,
   total_completed |-> summary.total_completed,
   meets_target |-> summary.meets_minimum,
   target_gap |-> IF target - summary.total_completed > 0
                  THEN target - summary.total_completed ELSE 0,
   leftover_senior |-> summary.leftover_senior,
   leftover_junior |-> summary.leftover_junior]

evaluate_configuration(s, j, w, target) ==
  CHOOSE result \in
    { ConfigurationResult(s, j, w, target, summary) :
        summary \in { get_strategy_summary(m) :
                        m \in { Computed(ConfigurationManager(s, j, w, target)) } } } :
    TRUE

EvaluateConfiguration ==
  /\ pc = "entry"
  /\ \E s \in 0..MaxSenior, j \in 0..MaxJunior, w \in {60, WORK_HOURS_PER_DAY},
        target \in {1, MaxTarget} :
       returned' = evaluate_configuration(s, j, w, target)
  /\ UNCHANGED << df, senior_workers, junior_workers, work_hours_per_day,
                  minimum_work_target, computed, assignment, remaining_senior_time,
                  remaining_junior_time, strategy_manager >>
  /\ EntryFrame

\* The program started, the two files in place, no global manager yet.
InitEntry ==
  /\ result_csv \in ManagerLists
  /\ employee_list_csv \in EntryRosters
  /\ strategy_manager = "None"
  /\ df = NoData
  /\ employee_data = << >>
  /\ senior_workers = 0
  /\ junior_workers = 0
  /\ work_hours_per_day = WORK_HOURS_PER_DAY
  /\ minimum_work_target = MINIMUM_WORK_TARGET
  /\ senior_time = SENIOR_TIME
  /\ junior_time = JUNIOR_TIME
  /\ computed = FALSE
  /\ assignment = << >>
  /\ remaining_senior_time = 0
  /\ remaining_junior_time = 0
  /\ pc = "entry"
  /\ PlannerIdle
  /\ MapperIdle
  /\ request = << >>
  /\ response = << >>
  /\ returned = << >>
  /\ runs = << >>

NextEntry ==
  \/ WriteResultCsv
  \/ WriteEmployeeList
  \/ GetOptimalAssignmentCall
  \/ AssignWorkersToTasks
  \/ AssignWorkersWithJsonInput
  \/ EvaluateConfiguration

SpecEntry == InitEntry /\ [][NextEntry]_vars

(***************************************************************************)
(* Two calls of assign_workers_to_tasks at once                            *)
(***************************************************************************)
Callers == {1, 2}

\* The work data and the roster a caller passes.
CallerInputs ==
  { [work_data |-> d, roster |-> r] :
      d \in ManagerLists,
      r \in { RosterList(Roster(1, 1)), RosterFrame(Roster(2, 1)) } }

\* One StrategyManager for all callers.
SharedInstance(p) == 1

\* The instance get_strategy_manager(work_data, employee_data) returns to the
\* caller p: with an argument, StrategyManager(...) each time.
InstanceOf(p) == p

\* What a call returns and prints for the plan of the instance m, the lists
\* and the state of the mapper after its loop.
CallResult(m, mapped) ==
  [optimal_assignment |-> m.optimal_assignment,
   leftover_senior |-> m.leftover_senior,
   leftover_junior |-> m.leftover_junior,
   df_sorted |-> mapped.df_sorted,
   senior_workload |-> mapped.senior_workload,
   junior_workload |-> mapped.junior_workload,
   strategy_summary |-> get_strategy_summary(m)]

\* The locals of the call of p (overlaps: the other call was under way when
\* this one started) and the instance the call holds.
Local(p) == runs.local[p]
Instance(p) == runs.heap[Local(p).strategy_manager]

Step(p, from, to, local) ==
  /\ Local(p).pc = from
  /\ runs' = [runs EXCEPT !.local[p] = [local EXCEPT !.pc = to]]

RunsFrame ==
  UNCHANGED << inputVars, planVars, mapVars, pc, pos, strategy_summary, run, prev,
               request, response, result_csv, employee_list_csv, strategy_manager,
               returned >>

\* strategy_manager = get_strategy_manager(work_data=..., employee_data=...)
RunGetManager(p) ==
  /\ Local(p).pc = "start"
  /\ runs' = [runs EXCEPT
       !.heap[InstanceOf(p)] =
          StrategyManager(Local(p).work_data, Local(p).roster,
                          WORK_HOURS_PER_DAY, MINIMUM_WORK_TARGET),
       !.local[p].strategy_manager = InstanceOf(p),
       !.local[p].overlaps = \E q \in Callers \ {p} :
                                Local(q).pc \notin {"start", "done"},
       !.local[p].pc = "get_data"]
  /\ RunsFrame

\* df = strategy_manager.get_data()
RunGetData(p) ==
  /\ Step(p, "get_data", "get_optimal_assignment",
          [Local(p) EXCEPT !.df = Instance(p).df])
  /\ RunsFrame

\* optimal_assignment = strategy_manager.get_optimal_assignment() and the
\* leftovers: the instance computes and keeps the plan.
RunGetOptimalAssignment(p) ==
  /\ Local(p).pc = "get_optimal_assignment"
  /\ \E m \in { Computed(Instance(p)) } :
       runs' = [runs EXCEPT
         !.heap[Local(p).strategy_manager] = m,
         !.local[p].optimal_assignment = m.optimal_assignment,
         !.local[p].pc = "get_employee_lists"]
  /\ RunsFrame

\* The roster lists, the sorted frame, the workloads and the quota table.
RunMapStart(p) ==
  /\ \E lists \in { get_employee_lists(Local(p).roster) } :
       Step(p, "get_employee_lists", "mapping",
            [Local(p) EXCEPT
               !.senior_workers = lists[1],
               !.junior_workers = lists[2],
               !.mapper = MapperStart(Local(p).df, Local(p).optimal_assignment,
                                      lists[1], lists[2]),
               !.idx = 1])
  /\ RunsFrame

\* One iteration of the loop of the mapper.
RunMapRow(p) ==
  /\ Local(p).pc = "mapping"
  /\ Local(p).idx <= Len(Local(p).mapper.df_sorted)
  /\ Step(p, "mapping", "mapping",
          [Local(p) EXCEPT
             !.mapper = MappedRow(@, Local(p).idx, Local(p).senior_workers,
                                  Local(p).junior_workers),
             !.idx = @ + 1])
  /\ RunsFrame

\* strategy_manager.get_strategy_summary() after the loop, and the return.
RunReturn(p) ==
  /\ Local(p).pc = "mapping"
  /\ Local(p).idx > Len(Local(p).mapper.df_sorted)
  /\ \E m \in { Computed(Instance(p)) } :
       runs' = [runs EXCEPT
         !.heap[Local(p).strategy_manager] = m,
         !.local[p].result = CallResult(m, Local(p).mapper),
         !.local[p].pc = "done"]
  /\ RunsFrame

InitRuns ==
  /\ \E in \in [Callers -> CallerInputs] :
       runs = [heap |-> [i \in Callers |-> None],
               local |-> [p \in Callers |->
                            [pc |-> "start",
                             work_data |-> in[p].work_data,
                             roster |-> in[p].roster,
                             strategy_manager |-> 0,
                             overlaps |-> FALSE,
                             df |-> NoData,
                             optimal_assignment |-> << >>,
                             senior_workers |-> << >>,
                             junior_workers |-> << >>,
                             mapper |-> << >>,
                             idx |-> 0,
                             result |-> << >>]]]
  /\ result_csv = << >>
  /\ employee_list_csv = << >>
  /\ strategy_manager = "None"
  /\ df = NoData
  /\ employee_data = << >>
  /\ senior_workers = 0
  /\ junior_workers = 0
  /\ work_hours_per_day = WORK_HOURS_PER_DAY
  /\ minimum_work_target = MINIMUM_WORK_TARGET
  /\ senior_time = SENIOR_TIME
  /\ junior_time = JUNIOR_TIME
  /\ computed = FALSE
  /\ assignment = << >>
  /\ remaining_senior_time = 0
  /\ remaining_junior_time = 0
  /\ pc = "runs"
  /\ PlannerIdle
  /\ MapperIdle
  /\ request = << >>
  /\ response = << >>
  /\ returned = << >>

NextRuns ==
  \E p \in Callers :
    \/ RunGetManager(p)
    \/ RunGetData(p)
    \/ RunGetOptimalAssignment(p)
    \/ RunMapStart(p)
    \/ RunMapRow(p)
    \/ RunReturn(p)

SpecRuns == InitRuns /\ [][NextRuns]_vars

\* Work data whose difficulty column holds values that are not keys of the
\* time tables (nothing on the way to the planner checks the column).
DomainKinds == { <<1, 1>>, <<2, 1>>, <<1, 8>>, <<2, 8>>, <<2, 0>> }

DomainLists ==
  UNION { [1..n -> { Item(k) : k \in DomainKinds }] : n \in 1..(MaxItems - 1) }

DomainInputs ==
  { [df |-> d, employee_data |-> Roster(1, 1), minimum_work_target |-> t] :
      d \in DomainLists, t \in 0..MaxTarget }

InitDomain == \E in \in DomainInputs : InitWith(in, WORK_HOURS_PER_DAY, ConfiguredTimes)

SpecDomain == InitDomain /\ [][Next]_vars

(***************************************************************************)
(* Properties                                                              *)
(***************************************************************************)
\* Sum of estimated_time over the output rows that satisfy P.
MinutesWhere(out, P(_)) ==
  SumOver({i \in DOMAIN out : P(out[i])}, [i \in DOMAIN out |-> out[i].estimated_time])

MinutesOfWorker(w) == MinutesWhere(df_sorted, LAMBDA r : r.assigned_worker = w)
MinutesOfClass(t) == MinutesWhere(df_sorted, LAMBDA r : r.worker_type = t)

Processed(i) == pc \in {"done", "error"} \/ (pc = "mapping" /\ i < pos)

\* Minutes the mandatory items need when each is counted at the time of the
\* slower class (the junior time).
MandatoryMinutes ==
  SumOver({i \in DOMAIN df : df[i].priority = 1},
          [i \in DOMAIN df |-> JUNIOR_TIME[df[i].difficulty]])

\* C1: at every step of the mapper and in its result, for every worker of
\* the roster the sum of estimated_time of the rows assigned to the worker,
\* which is the worker's entry of the workload table, is at most
\* WORK_HOURS_PER_DAY.
CapacityInvariant ==
  \A i \in DOMAIN employee_data :
    LET w == employee_data[i].id
    IN /\ MinutesOfWorker(w) <= WORK_HOURS_PER_DAY
       /\ w \in DOMAIN senior_workload => senior_workload[w] = MinutesOfWorker(w)
       /\ w \in DOMAIN junior_workload => junior_workload[w] = MinutesOfWorker(w)

\* C1 witness: a run returned, with a row left UNASSIGNED because no worker
\* of a roster with both classes had the minutes for it.
CapacityWitness ==
  /\ pc = "done"
  /\ \E i \in UnassignedRows(df_sorted) :
       /\ i \notin fit_seen
       /\ ~SkipsRow(df_sorted[i].difficulty, remaining_quota)
  /\ \E w \in DOMAIN senior_workload : senior_workload[w] = WORK_HOURS_PER_DAY

\* C2: in a run that returned, if the minutes of the priority-1 items are at
\* most (senior workers + junior workers) * WORK_HOURS_PER_DAY, no priority-1
\* row is UNASSIGNED.
MandatoryCompleteness ==
  (pc = "done" /\ MandatoryMinutes <= (senior_workers + junior_workers) * WORK_HOURS_PER_DAY)
    => \A i \in DOMAIN df_sorted :
         df_sorted[i].priority = 1 => df_sorted[i].assigned_worker # UNASSIGNED

\* C3: once the output frame exists it holds exactly one record per input
\* row, with the row's priority and difficulty, and the assigned and the
\* UNASSIGNED records together are as many as the input rows.
Conservation ==
  pc \in {"mapping", "done", "error"} =>
    /\ Len(df_sorted) = Len(df)
    /\ \A r \in DOMAIN df : Cardinality({i \in DOMAIN df_sorted : df_sorted[i].row = r}) = 1
    /\ \A i \in DOMAIN df_sorted :
         /\ df_sorted[i].row \in DOMAIN df
         /\ df_sorted[i].priority = df[df_sorted[i].row].priority
         /\ df_sorted[i].difficulty = df[df_sorted[i].row].difficulty
    /\ Cardinality(AssignedRows(df_sorted)) + Cardinality(UnassignedRows(df_sorted))
         = Len(df)

\* C3 witness: a returned run over rows of equal priority and difficulty,
\* with assigned and UNASSIGNED rows.
ConservationWitness ==
  /\ pc = "done"
  /\ AssignedRows(df_sorted) # {}
  /\ UnassignedRows(df_sorted) # {}
  /\ \E i, j \in DOMAIN df : i # j /\ df[i] = df[j]

\* C4: a second run on the same rows and the same roster returns the plan,
\* the leftover values and the output records of the first run.
Determinism ==
  (run = 2 /\ pc = "done" /\ employee_data = prev.employee_data) =>
    /\ assignment = prev.assignment
    /\ remaining_senior_time = prev.leftover_senior
    /\ remaining_junior_time = prev.leftover_junior
    /\ df_sorted = prev.df_sorted

\* C4 witness: the second run returned after rows were given to workers of a
\* class with equally loaded workers, and both classes were used.
DeterminismWitness ==
  /\ run = 2
  /\ pc = "done"
  /\ employee_data = prev.employee_data
  /\ senior_workers >= 2
  /\ junior_workers >= 2
  /\ \E i \in DOMAIN df_sorted : df_sorted[i].worker_type = "SENIOR"
  /\ \E i \in DOMAIN df_sorted : df_sorted[i].worker_type = "JUNIOR"

\* C5: a second run with one more senior or one more junior worker assigns
\* at least as many rows as the first run.
Monotonicity ==
  (run = 2 /\ pc = "done" /\ Len(employee_data) = Len(prev.employee_data) + 1) =>
    Cardinality(AssignedRows(df_sorted)) >= Cardinality(AssignedRows(prev.df_sorted))

\* C6: at the return of the planner, the rows the maximization phase went
\* through are exactly the rows the first two phases did not count.
MaximizationPool ==
  pc = "planned" =>
    placed.tried3 = DOMAIN df \ (placed.phase1 \cup placed.phase2)

\* C7: in the returned plan, for every difficulty the senior count plus the
\* junior count is at most the number of input rows of that difficulty.
QuotaBound ==
  pc = "planned" =>
    \A d \in DOMAIN assignment :
      assignment[d][1] + assignment[d][2]
        <= Cardinality({i \in DOMAIN df : df[i].difficulty = d})

\* C8: in a run that returned, the leftover of a class in the strategy
\* summary is the class's workers times WORK_HOURS_PER_DAY minus the
\* estimated_time of the rows assigned to the class.
LeftoverEquation ==
  pc = "done" =>
    /\ strategy_summary.leftover_senior
         = senior_workers * WORK_HOURS_PER_DAY - MinutesOfClass("SENIOR")
    /\ strategy_summary.leftover_junior
         = junior_workers * WORK_HOURS_PER_DAY - MinutesOfClass("JUNIOR")

\* C9: at every step of the planner, in its three phases and at its return,
\* the remaining senior time and the remaining junior time are >= 0.
LeftoverNonNegative ==
  /\ remaining_senior_time >= 0
  /\ remaining_junior_time >= 0

\* C9 witness: the planner returned after an earlier phase and the
\* maximization phase counted rows, the maximization phase left a row out for
\* lack of time, and time of both classes was used.
LeftoverWitness ==
  /\ pc = "planned"
  /\ placed.phase1 \cup placed.phase2 # {}
  /\ placed.phase3 # {}
  /\ placed.tried3 \ placed.phase3 # {}
  /\ remaining_senior_time < senior_workers * work_hours_per_day
  /\ remaining_junior_time < junior_workers * work_hours_per_day

\* C10: a processed row is UNASSIGNED exactly when, at the moment it was
\* processed, no senior worker and no junior worker had the minutes for it.
UnassignedIffNoFit ==
  \A i \in DOMAIN df_sorted :
    Processed(i) => (df_sorted[i].assigned_worker = UNASSIGNED <=> i \notin fit_seen)

\* The roster list and the workload table of the class of output record r,
\* as they were when row i was processed.
ClassList(r) == IF r.worker_type = "SENIOR" THEN SeniorList ELSE JuniorList
ClassLoad(r, i) ==
  IF r.worker_type = "SENIOR" THEN load_seen[i].senior ELSE load_seen[i].junior
ClassTime(r) ==
  IF r.worker_type = "SENIOR" THEN SENIOR_TIME[r.difficulty]
  ELSE JUNIOR_TIME[r.difficulty]

\* C11: every row the mapper has given to a worker went to a worker whose
\* workload, when the row was processed, was the smallest among the workers
\* of that class that could still take the row within WORK_HOURS_PER_DAY.
LeastLoadedSelection ==
  \A i \in DOMAIN load_seen :
    LET r == df_sorted[i]
        list == ClassList(r)
        load == ClassLoad(r, i)
    IN r.assigned_worker # UNASSIGNED =>
         \A k \in DOMAIN list :
           load[list[k]] + ClassTime(r) <= WORK_HOURS_PER_DAY
             => load[r.assigned_worker] <= load[list[k]]

\* C11 witness: a run returned in which a row went to a worker while another
\* worker of the class, with a larger workload, could have taken it too.
LeastLoadedWitness ==
  /\ pc = "done"
  /\ \E i \in DOMAIN load_seen :
       LET r == df_sorted[i]
           list == ClassList(r)
           load == ClassLoad(r, i)
       IN /\ r.assigned_worker # UNASSIGNED
          /\ \E k \in DOMAIN list :
               /\ load[list[k]] + ClassTime(r) <= WORK_HOURS_PER_DAY
               /\ load[list[k]] > load[r.assigned_worker]

\* The count of a difficulty in a plan, <<0, 0>> for a difficulty without key.
CountOf(a, diff) == IF diff \in DOMAIN a THEN a[diff] ELSE << 0, 0 >>

\* A step that counts one more item of difficulty diff for class cls ("none":
\* for no class) and takes the item's time from that class only.
CountsFor(cls, diff) ==
  /\ remaining_senior_time' =
       remaining_senior_time - (IF cls = "senior" THEN senior_time[diff] ELSE 0)
  /\ remaining_junior_time' =
       remaining_junior_time - (IF cls = "junior" THEN junior_time[diff] ELSE 0)
  /\ completed_count' = completed_count + (IF cls = "none" THEN 0 ELSE 1)
  /\ DOMAIN assignment' = DOMAIN assignment \cup (IF cls = "none" THEN {} ELSE {diff})
  /\ \A d \in DOMAIN assignment' :
       assignment'[d] =
         << CountOf(assignment, d)[1] + (IF cls = "senior" /\ d = diff THEN 1 ELSE 0),
            CountOf(assignment, d)[2] + (IF cls = "junior" /\ d = diff THEN 1 ELSE 0) >>

\* One iteration of the mandatory phase.
MandatoryStep ==
  (pc = "phase1" /\ pos <= Len(rows)) =>
    LET diff == df[rows[pos]].difficulty
    IN /\ pc' = "phase1"
       /\ pos' = pos + 1
       /\ rows' = rows
       /\ IF remaining_senior_time >= senior_time[diff] THEN CountsFor("senior", diff)
          ELSE IF remaining_junior_time >= junior_time[diff] THEN CountsFor("junior", diff)
          ELSE CountsFor("none", diff)

\* The mandatory phase walks the priority-1 rows, each once, in ascending
\* difficulty.
MandatoryOrder ==
  pc = "phase1" =>
    /\ { rows[k] : k \in DOMAIN rows } = { i \in DOMAIN df : df[i].priority = 1 }
    /\ Len(rows) = Cardinality({ i \in DOMAIN df : df[i].priority = 1 })
    /\ \A k, l \in DOMAIN rows :
         k < l => df[rows[k]].difficulty <= df[rows[l]].difficulty

\* Scenario A: one senior, one junior, one priority-1 item of difficulty 1.
ScenarioA ==
  (pc = "done" /\ df = << Item(<<1, 1>>) >> /\ employee_data = Roster(1, 1)) =>
    /\ df_sorted[1].worker_type = "SENIOR"
    /\ df_sorted[1].assigned_worker = "S1"
    /\ df_sorted[1].estimated_time = 5
    /\ strategy_summary.leftover_senior = 475
    /\ strategy_summary.leftover_junior = 480

\* C12: the mandatory phase takes the priority-1 rows in ascending
\* difficulty; each step counts the item for senior exactly when the remaining
\* senior time is at least its senior time (that time is taken from the senior
\* time, the junior time stays), otherwise for junior exactly when the
\* remaining junior time is at least its junior time, otherwise for no class,
\* and goes on with the next row.  Scenario A gives SENIOR, 5 minutes and the
\* leftovers 475 and 480.
MandatoryPhaseRule ==
  /\ [][MandatoryStep]_vars
  /\ [](MandatoryOrder /\ ScenarioA)

\* C12 witness: the mandatory phase has reached its last row after it
\* counted rows for senior, rows for junior, and left a row out.
MandatoryPhaseWitness ==
  /\ pc = "phase1"
  /\ pos > Len(rows)
  /\ \E d \in DOMAIN assignment : assignment[d][1] > 0
  /\ \E d \in DOMAIN assignment : assignment[d][2] > 0
  /\ priority_1_completed < Len(rows)
  /\ senior_workers > 0
  /\ junior_workers > 0

\* C13: the target phase counts a row only while the running count (rows of
\* the mandatory phase plus rows of the target phase) is below
\* minimum_work_target: the two phases together never count more than
\* max(minimum_work_target, rows of the mandatory phase), and with
\* minimum_work_target = 0 the target phase counts nothing.
TargetStop ==
  LET n1 == Cardinality(placed.phase1)
      n2 == Cardinality(placed.phase2)
  IN /\ pc \in {"phase1", "phase2"} => completed_count = n1 + n2
     /\ n2 > 0 => n1 + n2 <= minimum_work_target
     /\ n1 + n2 <= (IF minimum_work_target > n1 THEN minimum_work_target ELSE n1)
     /\ minimum_work_target = 0 => placed.phase2 = {}

\* C13 witness: the target phase has just ended at the target, after it
\* counted a row, with a row of another priority left that a class still has
\* the time for.
TargetStopWitness ==
  /\ pc = "phase3"
  /\ pos = 1
  /\ placed.phase2 # {}
  /\ Cardinality(placed.phase1) + Cardinality(placed.phase2) = minimum_work_target
  /\ \E i \in DOMAIN df :
       /\ df[i].priority # 1
       /\ i \notin placed.phase2
       /\ \/ remaining_senior_time >= senior_time[df[i].difficulty]
          \/ remaining_junior_time >= junior_time[df[i].difficulty]

\* One iteration of the target phase below the target.
TargetStep ==
  (pc = "phase2" /\ pos <= Len(rows) /\ completed_count < minimum_work_target) =>
    LET diff == df[rows[pos]].difficulty
        seniorFits == remaining_senior_time >= senior_time[diff]
        juniorFits == remaining_junior_time >= junior_time[diff]
    IN /\ pc' = "phase2"
       /\ pos' = pos + 1
       /\ rows' = rows
       /\ IF seniorFits /\ juniorFits
          THEN (IF junior_time[diff] < senior_time[diff]
                THEN CountsFor("junior", diff) ELSE CountsFor("senior", diff))
          ELSE IF seniorFits THEN CountsFor("senior", diff)
          ELSE IF juniorFits THEN CountsFor("junior", diff)
          ELSE CountsFor("none", diff)

\* The target phase walks the rows of the other priorities, each once, by
\* priority and then difficulty.
TargetOrder ==
  pc = "phase2" =>
    /\ { rows[k] : k \in DOMAIN rows } = { i \in DOMAIN df : df[i].priority # 1 }
    /\ Len(rows) = Cardinality({ i \in DOMAIN df : df[i].priority # 1 })
    /\ \A k, l \in DOMAIN rows :
         k < l =>
           \/ df[rows[k]].priority < df[rows[l]].priority
           \/ /\ df[rows[k]].priority = df[rows[l]].priority
              /\ df[rows[k]].difficulty <= df[rows[l]].difficulty

\* C14: the target phase takes the rows of the other priorities by priority
\* and then difficulty; a row both classes have the time for is counted for
\* the class with the smaller time for its difficulty, for senior when the
\* times are equal; a row one class has the time for is counted for that
\* class; a row no class has the time for is skipped and the running count
\* stays.
TargetClassChoice ==
  /\ [][TargetStep]_vars
  /\ []TargetOrder

\* C14 witness: the target phase has ended after it counted, with time left
\* in both classes, a row of difficulty 1 (equal times) for senior and a row
\* of difficulty 7 (shorter junior time) for junior.
TargetClassWitness ==
  /\ pc = "phase3"
  /\ pos = 1
  /\ placed.phase1 = {}
  /\ junior_time[1] = senior_time[1]
  /\ junior_time[7] < senior_time[7]
  /\ 1 \in DOMAIN assignment /\ assignment[1][1] > 0
  /\ 7 \in DOMAIN assignment /\ assignment[7] = << 0, 1 >>
  /\ remaining_senior_time >= senior_time[7]
  /\ remaining_junior_time >= junior_time[1]

\* One iteration of the maximization phase.
MaximizationStep ==
  (pc = "phase3" /\ pos <= Len(rows)) =>
    LET diff == df[rows[pos]].difficulty
    IN /\ pc' = "phase3"
       /\ pos' = pos + 1
       /\ rows' = rows
       /\ IF remaining_junior_time >= junior_time[diff] THEN CountsFor("junior", diff)
          ELSE IF remaining_senior_time >= senior_time[diff] THEN CountsFor("senior", diff)
          ELSE CountsFor("none", diff)

\* The rows the maximization phase has gone through are the rows of its loop
\* up to the current one, each once, and all of them at the return.
MaximizationAttempts ==
  /\ pc = "phase3" =>
       /\ placed.tried3 = { rows[k] : k \in 1..(pos - 1) }
       /\ Cardinality(placed.tried3) = pos - 1
  /\ pc = "planned" =>
       /\ placed.tried3 = { rows[k] : k \in DOMAIN rows }
       /\ Cardinality(placed.tried3) = Len(rows)

\* C15: the maximization phase goes once through every row of its loop; a
\* row is counted for junior when the remaining junior time is at least its
\* junior time, else for senior when the remaining senior time is at least
\* its senior time, else for no class, and the loop goes on to its last row
\* whatever rows were left out before.
MaximizationStepRule ==
  /\ [][MaximizationStep]_vars
  /\ []MaximizationAttempts

\* C15 witness: the planner returned after the maximization phase left a row
\* out and counted a row that came later in its loop.
MaximizationStepWitness ==
  /\ pc = "planned"
  /\ \E k, l \in DOMAIN rows :
       /\ k < l
       /\ rows[k] \notin placed.phase3
       /\ rows[l] \in placed.phase3
       /\ rows[l] \notin { rows[m] : m \in 1..k }

\* The time left after the mandatory phase has room for an item of
\* difficulty a, and for items of difficulties a and b together.
HoldsOne(left, a) ==
  left[1] >= senior_time[a] \/ left[2] >= junior_time[a]
HoldsBoth(left, a, b) ==
  \/ left[1] >= senior_time[a] + senior_time[b]
  \/ left[2] >= junior_time[a] + junior_time[b]
  \/ left[1] >= senior_time[a] /\ left[2] >= junior_time[b]
  \/ left[1] >= senior_time[b] /\ left[2] >= junior_time[a]

\* C16 (Scenario C): with minimum_work_target = 0, when the only item of
\* difficulty 1, of a priority other than 1, stands after an item of
\* difficulty 5 in the input and the time left after the mandatory phase has room for the
\* item of difficulty 1 but not for both, the maximization phase counts the
\* item of difficulty 1, whatever mandatory items were counted before.
SimplestFirst ==
  (pc = "planned" /\ minimum_work_target = 0) =>
    \A i, j \in DOMAIN df :
      ( /\ i < j
        /\ df[i].priority # 1 /\ df[i].difficulty = 5
        /\ df[j].priority # 1 /\ df[j].difficulty = 1
        /\ Cardinality({ k \in DOMAIN df : df[k].difficulty = 1 }) = 1
        /\ HoldsOne(placed.left1, 1)
        /\ ~HoldsBoth(placed.left1, 1, 5) )
      => (j \in placed.phase3 /\ i \notin placed.phase3)

\* C17: a processed row of a difficulty of HIGH_DIFFICULTY_LEVELS is with a
\* junior worker only if, when the row was processed, no senior worker of
\* the roster could take it within WORK_HOURS_PER_DAY, whatever the quota of
\* the difficulty was.
HighDifficultySeniorBias ==
  \A i \in DOMAIN load_seen :
    ( /\ df_sorted[i].difficulty \in HIGH_DIFFICULTY_LEVELS
      /\ df_sorted[i].worker_type = "JUNIOR" )
    => \A k \in DOMAIN SeniorList :
         load_seen[i].senior[SeniorList[k]] + SENIOR_TIME[df_sorted[i].difficulty]
           > WORK_HOURS_PER_DAY

Ended(in) ==
  /\ pc \in {"done", "error"}
  /\ df = in.df
  /\ employee_data = in.employee_data
  /\ minimum_work_target = in.minimum_work_target

\* C19 (Scenario B): the run of Scenario B returns, 48 rows are assigned, 152
\* rows are UNASSIGNED, and the summary reports the target of 50 as missed
\* by 2.
ScenarioBOutcome ==
  Ended(ScenarioB) =>
    /\ pc = "done"
    /\ Cardinality(AssignedRows(df_sorted)) = 48
    /\ Cardinality(UnassignedRows(df_sorted)) = 152
    /\ ~strategy_summary.meets_minimum
    /\ minimum_work_target - strategy_summary.total_completed = 2

\* C20: no run ends in an exception: whatever the rows (of difficulties 1..7)
\* and the roster, also with less capacity than demand, with mandatory rows
\* that cannot be placed or with a class without workers, the run returns.
NeverAnError == pc # "error"

(***************************************************************************)
(* Errors                                                                  *)
(***************************************************************************)
\* The work data has a difficulty that is not a key of the time tables.
OutOfDomain == \E i \in DOMAIN df : KeyError(df[i].difficulty)

\* C21: a run on work data with a difficulty that is not a key of the time
\* tables ends in an error before anything is allocated: it never returns a
\* plan, never maps a row and never returns a result, so no such row is
\* reported UNASSIGNED by a run that succeeds.
OutOfDomainIsFatal ==
  OutOfDomain => pc \notin {"planned", "mapping", "done"}

\* The request has one of the shape errors: no work item, a work item
\* without one of the core fields, no employee, an employee without id or
\* type, or an employee whose type is not SENIOR or JUNIOR in either case.
ShapeError(req) ==
  LET work_list == Get(req, "work_list", << >>)
      employee_list == Get(req, "employee_list", << >>)
  IN \/ work_list = << >>
     \/ \E i \in DOMAIN work_list :
          ~({"measure_record_oid", "priority", "difficulty"} \subseteq DOMAIN work_list[i])
     \/ employee_list = << >>
     \/ \E i \in DOMAIN employee_list :
          \/ ~({"id", "type"} \subseteq DOMAIN employee_list[i])
          \/ employee_list[i].type \notin {"SENIOR", "JUNIOR", "senior", "junior"}

\* Neither the planner nor the mapper has run.
NothingRun ==
  /\ df = << >>
  /\ assignment = << >>
  /\ df_sorted = << >>
  /\ ~computed

\* C22: a request with a shape error is answered with status 400 and
\* success = false, and neither the planner nor the mapper runs for it.
ShapeErrorsRejected ==
  ShapeError(request) =>
    /\ NothingRun
    /\ pc = "answered" => response = [status |-> 400, success |-> FALSE]

(***************************************************************************)
(* Target status                                                           *)
(***************************************************************************)
\* generate_global_statistics, the target status: meets_target is the flag
\* of the strategy summary; the shortage is printed when the flag is false,
\* the excess when it is true, both from the assigned rows.
TargetStatus ==
  LET assigned_tasks == Cardinality(AssignedRows(df_sorted))
  IN [assigned_tasks |-> assigned_tasks,
      meets_target |-> strategy_summary.meets_minimum,
      shortage |-> IF strategy_summary.meets_minimum THEN 0
                   ELSE minimum_work_target - assigned_tasks,
      excess |-> IF strategy_summary.meets_minimum
                 THEN assigned_tasks - minimum_work_target ELSE 0]

\* C23: the target status a run reports is that of its result: the
\* meets-minimum flag is true exactly when the number of assigned rows is
\* at least minimum_work_target, and the reported gap is
\* max(0, minimum_work_target - assigned rows).
SummaryAgreesWithAssignment ==
  pc = "done" =>
    LET assigned == Cardinality(AssignedRows(df_sorted))
        gap == IF minimum_work_target > assigned
               THEN minimum_work_target - assigned ELSE 0
    IN /\ TargetStatus.meets_target <=> assigned >= minimum_work_target
       /\ TargetStatus.shortage = gap

(***************************************************************************)
(* Plan total                                                              *)
(***************************************************************************)
\* C29: the placements of the plan (the sum over the difficulties of the
\* senior and the junior count) are as many as the planner's completed
\* count, in every state of the planner and so in the plan it returns, and
\* never more than the rows of the input.
PlanTotalBound ==
  LET total == PlanTotal(assignment, 1) + PlanTotal(assignment, 2)
  IN pc \in {"phase1", "phase2", "phase3", "planned"} =>
       /\ total = completed_count
       /\ total <= Len(df)

\* C29 witness: a returned plan with as many placements as the input has
\* rows, one of them a row the third loop counted after an earlier loop had
\* counted it.
PlanTotalWitness ==
  /\ pc = "planned"
  /\ PlanTotal(assignment, 1) + PlanTotal(assignment, 2) = Len(df)
  /\ placed.phase3 \cap (placed.phase1 \cup placed.phase2) # {}

(***************************************************************************)
(* Priority within a difficulty                                            *)
(***************************************************************************)
\* C30: of two rows of the same difficulty, the one of the more urgent
\* priority has a worker whenever the less urgent one has: in every state of
\* the mapper and in its result no row is UNASSIGNED while a less urgent row
\* of its difficulty is assigned.
PriorityWithinDifficulty ==
  \A i, j \in DOMAIN df_sorted :
    ( /\ df_sorted[i].difficulty = df_sorted[j].difficulty
      /\ df_sorted[i].priority < df_sorted[j].priority
      /\ df_sorted[j].assigned_worker # UNASSIGNED )
    => df_sorted[i].assigned_worker # UNASSIGNED

\* C30 witness: a result in which a row is UNASSIGNED and a more urgent row
\* of its difficulty has a worker.
PriorityWithinDifficultyWitness ==
  /\ pc = "done"
  /\ \E i, j \in DOMAIN df_sorted :
       /\ df_sorted[i].difficulty = df_sorted[j].difficulty
       /\ df_sorted[i].priority < df_sorted[j].priority
       /\ df_sorted[i].assigned_worker # UNASSIGNED
       /\ df_sorted[j].assigned_worker = UNASSIGNED

(***************************************************************************)
(* The cache of a manager                                                  *)
(***************************************************************************)
\* The plan and the leftovers of the planner for the data and the parameters
\* the instance has now.
CurrentPlan ==
  advanced_optimal_strategy(df, senior_workers, junior_workers, work_hours_per_day,
                            minimum_work_target)

\* C26: whatever operations were called on the instance, when _computed is
\* set the cached plan and leftovers are those of the planner for the current
\* data and parameters, and every load_data and update_parameters leaves
\* _computed cleared.
CacheCoherence ==
  /\ [][(LoadData \/ UpdateParameters) => ~computed']_vars
  /\ [](computed =>
          /\ assignment = CurrentPlan.assignment
          /\ remaining_senior_time = CurrentPlan.remaining_senior_time
          /\ remaining_junior_time = CurrentPlan.remaining_junior_time)

\* C26 witness: compute_optimal_strategy answered from the cache of an
\* instance whose parameters are no longer the configured ones.
CacheWitness ==
  /\ pc = "manager"
  /\ computed
  /\ returned # << >>
  /\ returned.call = "compute_optimal_strategy"
  /\ returned.cached
  /\ minimum_work_target # MINIMUM_WORK_TARGET
  /\ assignment # << >>

(***************************************************************************)
(* Invocations                                                             *)
(***************************************************************************)
\* The plan of the planner for the work data and the roster of the returned
\* call, with the parameters of the call.
PlanOfInvocation ==
  advanced_optimal_strategy(returned.work_data,
                            Cardinality(returned.senior_ids),
                            Cardinality(returned.junior_ids),
                            returned.work_hours_per_day,
                            returned.minimum_work_target).assignment

PlanningCalls ==
  {"get_optimal_assignment", "assign_workers_to_tasks", "assign_workers_with_json_input"}

\* C25: the plan a planning invocation returns is the plan for the work
\* data and the roster current at that invocation, whatever was invoked
\* before it and whatever the files held then.
NoStateSurvives ==
  (returned # << >> /\ returned.call \in PlanningCalls)
    => returned.optimal_assignment = PlanOfInvocation

\* The plan total of the planner for s senior and j junior workers on the
\* work data of the returned evaluation.
CompletedWith(s, j) ==
  LET a == advanced_optimal_strategy(returned.work_data, s, j,
                                     returned.work_hours_per_day,
                                     returned.minimum_work_target).assignment
  IN PlanTotal(a, 1) + PlanTotal(a, 2)

\* C27: evaluate_configuration(s, j) reports the total_completed and the
\* meets_target of the plan for s senior and j junior workers.
EvaluatesGivenStaffing ==
  (returned # << >> /\ returned.call = "evaluate_configuration")
    => /\ returned.total_completed =
            CompletedWith(returned.senior_workers, returned.junior_workers)
       /\ returned.meets_target =
            (CompletedWith(returned.senior_workers, returned.junior_workers)
               >= returned.minimum_work_target)

\* C28: in assign_workers_to_tasks and assign_workers_with_json_input the
\* senior and junior counts of the planner are the numbers of distinct
\* senior and junior workers of the mapper.
SameStaffing ==
  (returned # << >>
     /\ returned.call \in {"assign_workers_to_tasks", "assign_workers_with_json_input"})
    => /\ returned.senior_workers = Cardinality(returned.senior_ids)
       /\ returned.junior_workers = Cardinality(returned.junior_ids)

(***************************************************************************)
(* Concurrent runs                                                         *)
(***************************************************************************)
\* What assign_workers_to_tasks(work_data, roster) returns when no other
\* call runs.
Alone(work_data, roster) ==
  CHOOSE result \in
    { CallResult(m, MappedRows(MapperStart(m.df, m.optimal_assignment,
                                           lists[1], lists[2]),
                               1, lists[1], lists[2], FALSE)) :
        m \in { Computed(StrategyManager(work_data, roster, WORK_HOURS_PER_DAY,
                                         MINIMUM_WORK_TARGET)) },
        lists \in { get_employee_lists(roster) } } :
    TRUE

\* C24: however the steps of two calls interleave, the plan a call holds and
\* the plan, frame, workloads and summary it returns are those of the call
\* running alone on its work data and roster.
RunsIsolated ==
  \A p \in Callers :
    /\ Local(p).pc \in {"get_employee_lists", "mapping", "done"}
         => Local(p).optimal_assignment =
              Alone(Local(p).work_data, Local(p).roster).optimal_assignment
    /\ Local(p).pc = "done"
         => Local(p).result = Alone(Local(p).work_data, Local(p).roster)

\* C24 witness: two calls with different work data and rosters have both
\* returned, one of them having started while the other was under way.
RunsIsolatedWitness ==
  /\ pc = "runs"
  /\ \E p \in Callers : Local(p).overlaps
  /\ \A p \in Callers : Local(p).pc = "done"
  /\ Local(1).work_data # Local(2).work_data
  /\ Local(1).roster.form # Local(2).roster.form
  /\ Local(1).result.df_sorted # Local(2).result.df_sorted

====
